---- MODULE Spec2Model ----
(***************************************************************************)
(* Pentagon International back office: users, products, daily inventory    *)
(* records, orders and order items, with the request handlers that read    *)
(* and write them.  The store is the committed content of the five tables; *)
(* every request runs one handler to completion (one unit of work) and     *)
(* leaves a response.  Row ids are positions in the table sequences        *)
(* (autoincrement primary keys, rows are never deleted).  Where requests   *)
(* are served side by side, inflight is the order request whose handler    *)
(* has started and not yet answered, and working holds, per connection,    *)
(* the inventory request whose handler has read and not yet committed.     *)
(***************************************************************************)
EXTENDS Integers, Sequences, FiniteSets, TLC

VARIABLES users, products, inventory, orders, order_items, now, last, inflight, working

vars == <<users, products, inventory, orders, order_items, now, last, inflight, working>>

(***************************************************************************)
(* Bounds of the model.                                                    *)
(***************************************************************************)
\* number of committed writes explored (each takes one clock reading)
MaxTime == 2
\* number of committed writes explored where orders change status
MaxStatusTime == 3

(***************************************************************************)
(* Values.                                                                 *)
(***************************************************************************)
\* a NULL column (delivery_date before delivery)
Null == -1
\* a JSON value that is not a number: int() and float() raise ValueError on
\* it, arithmetic and comparison with it raise TypeError
BadNum == -999
\* a date string that does not parse as %Y-%m-%d
BadDate == -998
\* date.today(); dates are day numbers
Today == 3
\* closing_value = present_stock * 140.0
ReferencePrice == 140

ValidStatuses == {"pending", "processing", "delivered", "cancelled", "due"}

\* stock_status is 'low' below 10
LowStockLimit == 10
\* request.args.get('threshold', 10, type=int)
DefaultThreshold == 10

\* bool(value) of the JSON values true and false
PyBool(v) == v = TRUE

Has(data, field) == field \in DOMAIN data

Get(data, field, default) == IF field \in DOMAIN data THEN data[field] ELSE default

Ids(table) == 1..Len(table)

(***************************************************************************)
(* The store and responses.                                                *)
(***************************************************************************)
MkDb(us, ps, inv, os, ois) ==
    [users |-> us, products |-> ps, inventory |-> inv, orders |-> os, order_items |-> ois]

Db == MkDb(users, products, inventory, orders, order_items)

\* what a handler leaves behind: the status code, the stored state, the data of
\* the response body, and the unit of work the session holds when it returns
Resp(code, db, out, pending) == [code |-> code, db |-> db, out |-> out, pending |-> pending]

\* db.session.commit(): the pending unit of work becomes the stored state
SessionCommit(committed, pending) == pending

\* a rollback that is not issued: the pending unit of work reaches the store
SessionRollbackMissing(committed, pending) == pending

\* db.session.rollback(): the pending unit of work is discarded
SessionRollback(committed, pending) == committed

(***************************************************************************)
(* User model.                                                             *)
(***************************************************************************)
\* a role check that any known role passes
is_admin_or_sales(u) == u.role \in {"admin", "sales"}

is_admin(u) == u.role = "admin"

is_sales(u) == u.role = "sales"

\* the decorator without the is_active test
token_required_known(us, caller) == caller \in Ids(us)

\* the decorator lets the handler run only for an existing, active user
token_required(us, caller) == caller \in Ids(us) /\ us[caller].is_active

\* set_password stores a salted hash of the password, never the password
generate_password_hash(password) == <<"pbkdf2", password>>

\* check_password: the password hashes to what is stored
check_password(user, password) == user.password_hash = generate_password_hash(password)

SampleUsers == <<
    [username |-> "admin",   email |-> "admin@pentagon.com",   full_name |-> "System Administrator", phone |-> "+880171111111", role |-> "admin", is_active |-> TRUE,
     password_hash |-> generate_password_hash("admin123"), last_login |-> Null],
    [username |-> "sales1",  email |-> "sales1@pentagon.com",  full_name |-> "Ahmed Hassan",         phone |-> "+880172222222", role |-> "sales", is_active |-> TRUE,
     password_hash |-> generate_password_hash("sales123"), last_login |-> Null],
    [username |-> "sales2",  email |-> "sales2@pentagon.com",  full_name |-> "Fatima Rahman",        phone |-> "+880173333333", role |-> "sales", is_active |-> TRUE,
     password_hash |-> generate_password_hash("sales123"), last_login |-> Null],
    [username |-> "manager", email |-> "manager@pentagon.com", full_name |-> "Mohammad Ali",         phone |-> "+880174444444", role |-> "admin", is_active |-> TRUE,
     password_hash |-> generate_password_hash("manager123"), last_login |-> Null] >>

(***************************************************************************)
(* Product model.                                                          *)
(***************************************************************************)
SampleProducts == <<
    [item_name |-> "Kodomo Dental Kids Set (0.5-3)", category |-> "Dental Care", trade_price |-> 140, return_price_market |-> 120, return_price_office |-> 120, is_active |-> TRUE],
    [item_name |-> "Kodomo Dental Kids Set (3-6)",   category |-> "Dental Care", trade_price |-> 140, return_price_market |-> 130, return_price_office |-> 140, is_active |-> TRUE],
    [item_name |-> "Kodomo Dental Kids Set (6+)",    category |-> "Dental Care", trade_price |-> 140, return_price_market |-> 140, return_price_office |-> 140, is_active |-> TRUE] >>

\* float(value): a number converts, anything else raises ValueError
PyFloat(v) == [ok |-> v # BadNum, val |-> v]

\* the name lookup restricted to active products
NameTakenAmongActive(ps, name, except) ==
    \E i \in Ids(ps) : i # except /\ ps[i].is_active /\ ps[i].item_name = name

\* Product.query.filter(item_name == name, id != except).first() finds a row;
\* except is 0 where the query has no such condition
NameTaken(ps, name, except) ==
    \E i \in Ids(ps) : i # except /\ ps[i].item_name = name

\* POST /products
create_product(db, caller, data) ==
    IF ~token_required(db.users, caller) THEN Resp(401, db, <<>>, db)
    ELSE IF ~is_admin(db.users[caller]) THEN Resp(403, db, <<>>, db)
    ELSE IF ~Has(data, "item_name") \/ ~Has(data, "trade_price") THEN Resp(400, db, <<>>, db)
    ELSE IF NameTaken(db.products, data.item_name, 0) THEN Resp(400, db, <<>>, db)
    ELSE IF ~PyFloat(data.trade_price).ok THEN Resp(400, db, <<>>, db)
    ELSE IF ~PyFloat(Get(data, "return_price_market", 0)).ok THEN Resp(400, db, <<>>, db)
    ELSE IF ~PyFloat(Get(data, "return_price_office", 0)).ok THEN Resp(400, db, <<>>, db)
    ELSE
        LET product == [item_name |-> data.item_name,
                        trade_price |-> PyFloat(data.trade_price).val,
                        return_price_market |-> PyFloat(Get(data, "return_price_market", 0)).val,
                        return_price_office |-> PyFloat(Get(data, "return_price_office", 0)).val,
                        category |-> Get(data, "category", ""),
                        is_active |-> TRUE]
            pending == [db EXCEPT !.products = Append(db.products, product)]
        IN  Resp(201, SessionCommit(db, pending), Len(pending.products), SessionCommit(db, pending))

PriceFields == <<"trade_price", "return_price_market", "return_price_office">>

\* the 'if field in data: product.field = float(data[field])' statements, in
\* source order from the k-th on; stops at the first ValueError
RECURSIVE AssignPriceFields(_, _, _)
AssignPriceFields(rec, data, k) ==
    IF k > Len(PriceFields) THEN [ok |-> TRUE, rec |-> rec]
    ELSE LET f == PriceFields[k]
         IN  IF ~Has(data, f) THEN AssignPriceFields(rec, data, k + 1)
             ELSE IF ~PyFloat(data[f]).ok THEN [ok |-> FALSE, rec |-> rec]
             ELSE AssignPriceFields([rec EXCEPT ![f] = PyFloat(data[f]).val], data, k + 1)

\* a price update that also re-derives the unit_price and total_price of the
\* order items of the product
update_product_repricing(db, caller, product_id, data) ==
    IF ~token_required(db.users, caller) THEN Resp(401, db, <<>>, db)
    ELSE IF ~is_admin(db.users[caller]) THEN Resp(403, db, <<>>, db)
    ELSE IF product_id \notin Ids(db.products) THEN Resp(404, db, <<>>, db)
    ELSE IF ~Has(data, "trade_price") \/ ~PyFloat(data.trade_price).ok THEN Resp(400, db, <<>>, db)
    ELSE LET pending ==
                [db EXCEPT !.products[product_id].trade_price = data.trade_price,
                           !.order_items =
                               [k \in DOMAIN db.order_items |->
                                   IF db.order_items[k].product_id = product_id
                                   THEN [db.order_items[k] EXCEPT
                                            !.unit_price = data.trade_price,
                                            !.total_price = db.order_items[k].quantity * data.trade_price]
                                   ELSE db.order_items[k]]]
         IN  Resp(200, SessionCommit(db, pending), product_id, SessionCommit(db, pending))

\* PUT /products/<product_id>
update_product(db, caller, product_id, data) ==
    IF ~token_required(db.users, caller) THEN Resp(401, db, <<>>, db)
    ELSE IF ~is_admin(db.users[caller]) THEN Resp(403, db, <<>>, db)
    ELSE IF product_id \notin Ids(db.products) THEN Resp(404, db, <<>>, db)
    ELSE IF Has(data, "item_name") /\ NameTaken(db.products, data.item_name, product_id)
         THEN Resp(400, db, <<>>, db)
    ELSE
        LET named == IF Has(data, "item_name")
                     THEN [db.products[product_id] EXCEPT !.item_name = data.item_name]
                     ELSE db.products[product_id]
            priced == AssignPriceFields(named, data, 1)
            filed == IF Has(data, "category")
                     THEN [priced.rec EXCEPT !.category = data.category]
                     ELSE priced.rec
            product == IF Has(data, "is_active")
                       THEN [filed EXCEPT !.is_active = PyBool(data.is_active)]
                       ELSE filed
            dirty == [db EXCEPT !.products[product_id] = priced.rec]
            pending == [db EXCEPT !.products[product_id] = product]
        IN  IF ~priced.ok THEN Resp(400, db, <<>>, dirty)
            ELSE Resp(200, SessionCommit(db, pending), product_id, SessionCommit(db, pending))

\* DELETE /products/<product_id>
delete_product(db, caller, product_id) ==
    IF ~token_required(db.users, caller) THEN Resp(401, db, <<>>, db)
    ELSE IF ~is_admin(db.users[caller]) THEN Resp(403, db, <<>>, db)
    ELSE IF product_id \notin Ids(db.products) THEN Resp(404, db, <<>>, db)
    ELSE LET pending == [db EXCEPT !.products[product_id].is_active = FALSE]
         IN  Resp(200, SessionCommit(db, pending), product_id, SessionCommit(db, pending))

(***************************************************************************)
(* Inventory model.                                                        *)
(***************************************************************************)
MoveFields == <<"opening_pieces", "lifting_pieces", "return_market_pieces", "return_office_pieces">>

\* calculate_totals with the office returns left out of the sum
calculate_totals_without_office(r) ==
    LET ts == r.opening_pieces + r.return_market_pieces - r.lifting_pieces
    IN  [r EXCEPT !.total_stock = ts,
                  !.present_stock = ts,
                  !.closing_value = ts * ReferencePrice]

\* calculate_totals with a negative total raised to zero
calculate_totals_clamped(r) ==
    LET sum == r.opening_pieces + r.return_market_pieces + r.return_office_pieces - r.lifting_pieces
        ts == IF sum < 0 THEN 0 ELSE sum
    IN  [r EXCEPT !.total_stock = ts,
                  !.present_stock = ts,
                  !.closing_value = ts * ReferencePrice]

calculate_totals(r) ==
    LET ts == r.opening_pieces + r.return_market_pieces + r.return_office_pieces - r.lifting_pieces
    IN  [r EXCEPT !.total_stock = ts,
                  !.present_stock = ts,
                  !.closing_value = ts * ReferencePrice]

\* Inventory(...) with the column defaults for the derived fields
NewInventory(pid, d, op, li, rm, ro) ==
    [product_id |-> pid, date |-> d,
     opening_pieces |-> op, lifting_pieces |-> li,
     return_market_pieces |-> rm, return_office_pieces |-> ro,
     total_stock |-> 0, present_stock |-> 0, closing_value |-> 0]

\* the record create_sample_inventory builds for day Today - i
SampleInventoryRow(pid, i) ==
    calculate_totals(NewInventory(pid, Today - i, 20 + i * 5, 5 + i,
                                  IF i > 0 THEN 2 ELSE 3, IF i > 0 THEN 1 ELSE 2))

SampleInventory ==
    [k \in 1..(3 * Len(SampleProducts)) |->
        SampleInventoryRow(((k - 1) % Len(SampleProducts)) + 1, (k - 1) \div Len(SampleProducts))]

\* the query ordered by present_stock instead of date
RECURSIVE LargestInventory(_, _, _, _)
LargestInventory(inv, pid, i, best) ==
    IF i > Len(inv) THEN best
    ELSE LargestInventory(inv, pid, i + 1,
            IF inv[i].product_id = pid /\ (best = 0 \/ inv[i].present_stock > inv[best].present_stock)
            THEN i ELSE best)

\* filter_by(product_id).order_by(date.desc()).first(): position of the row
\* of the product with the greatest date, 0 when there is none
RECURSIVE LatestInventory(_, _, _, _)
LatestInventory(inv, pid, i, best) ==
    IF i > Len(inv) THEN best
    ELSE LatestInventory(inv, pid, i + 1,
            IF inv[i].product_id = pid /\ (best = 0 \/ inv[i].date > inv[best].date)
            THEN i ELSE best)

get_current_stock(inv, pid) ==
    LET k == LatestInventory(inv, pid, 1, 0)
    IN  IF k = 0 THEN 0 ELSE inv[k].present_stock

\* int(value): a number converts, anything else raises ValueError
PyInt(v) == [ok |-> v # BadNum, val |-> v]

\* the lookup given the date string as sent, which equals no stored date
ExistingRecordUnparsed(inv, product_id, inventory_date) ==
    \E i \in Ids(inv) : inv[i].product_id = product_id /\ inv[i].date = BadDate

\* Inventory.query.filter_by(product_id=..., date=inventory_date).first()
ExistingRecord(inv, product_id, inventory_date) ==
    \E i \in Ids(inv) : inv[i].product_id = product_id /\ inv[i].date = inventory_date

\* POST /inventory
create_inventory_record(db, caller, data) ==
    IF ~token_required(db.users, caller) THEN Resp(401, db, <<>>, db)
    ELSE IF ~is_admin(db.users[caller]) THEN Resp(403, db, <<>>, db)
    ELSE IF DOMAIN data = {} THEN Resp(400, db, <<>>, db)
    ELSE IF ~Has(data, "product_id") THEN Resp(400, db, <<>>, db)
    ELSE IF data.product_id \notin Ids(db.products) THEN Resp(404, db, <<>>, db)
    ELSE IF Has(data, "date") /\ data.date = BadDate THEN Resp(400, db, <<>>, db)
    ELSE
        LET inventory_date == Get(data, "date", Today)
            existing_record == ExistingRecord(db.inventory, data.product_id, inventory_date)
            row == NewInventory(data.product_id, inventory_date,
                                Get(data, "opening_pieces", 0), Get(data, "lifting_pieces", 0),
                                Get(data, "return_market_pieces", 0), Get(data, "return_office_pieces", 0))
            typeError == \E k \in 1..Len(MoveFields) : row[MoveFields[k]] = BadNum
            pending == [db EXCEPT !.inventory = Append(db.inventory, calculate_totals(row))]
        IN  IF existing_record THEN Resp(400, db, <<>>, db)
            ELSE IF typeError THEN Resp(500, SessionRollback(db, db), <<>>, SessionRollback(db, db))
            ELSE Resp(201, SessionCommit(db, pending), Len(pending.inventory), SessionCommit(db, pending))

\* the 'if field in data: inventory.field = int(data[field])' statements, in
\* source order from the k-th on; stops at the first ValueError
RECURSIVE AssignMoveFields(_, _, _)
AssignMoveFields(rec, data, k) ==
    IF k > Len(MoveFields) THEN [ok |-> TRUE, rec |-> rec]
    ELSE LET f == MoveFields[k]
         IN  IF ~Has(data, f) THEN AssignMoveFields(rec, data, k + 1)
             ELSE IF ~PyInt(data[f]).ok THEN [ok |-> FALSE, rec |-> rec]
             ELSE AssignMoveFields([rec EXCEPT ![f] = PyInt(data[f]).val], data, k + 1)

\* PUT /inventory/<inventory_id>
update_inventory_record(db, caller, inventory_id, data) ==
    IF ~token_required(db.users, caller) THEN Resp(401, db, <<>>, db)
    ELSE IF ~is_admin(db.users[caller]) THEN Resp(403, db, <<>>, db)
    ELSE IF inventory_id \notin Ids(db.inventory) THEN Resp(404, db, <<>>, db)
    ELSE IF DOMAIN data = {} THEN Resp(400, db, <<>>, db)
    ELSE
        LET assigned == AssignMoveFields(db.inventory[inventory_id], data, 1)
            dirty == [db EXCEPT !.inventory[inventory_id] = assigned.rec]
            pending == [db EXCEPT !.inventory[inventory_id] = calculate_totals(assigned.rec)]
        IN  IF ~assigned.ok THEN Resp(400, db, <<>>, dirty)
            ELSE Resp(200, SessionCommit(db, pending), inventory_id, SessionCommit(db, pending))

\* GET /inventory/product/<product_id>: the current_stock of the response
get_product_inventory(db, caller, product_id) ==
    IF ~token_required(db.users, caller) THEN Resp(401, db, <<>>, db)
    ELSE IF product_id \notin Ids(db.products) THEN Resp(404, db, <<>>, db)
    ELSE Resp(200, db, get_current_stock(db.inventory, product_id), db)

(***************************************************************************)
(* Catalog and stock listings.                                             *)
(***************************************************************************)
SoapName == "Kodomo Soap"

\* column.ilike('%q%') on the names, categories and search terms of the
\* model: q occurs in the text, letter case ignored
ILike(text, q) ==
    CASE q = "KODOMO" -> text \in {SampleProducts[1].item_name, SampleProducts[2].item_name,
                                   SampleProducts[3].item_name, SoapName}
      [] q = "soap" -> text \in {SoapName, "Soap"}
      [] q = "dental" -> text \in {SampleProducts[1].item_name, SampleProducts[2].item_name,
                                   SampleProducts[3].item_name, "Dental Care"}
      [] OTHER -> FALSE

\* a listing that leaves the is_active filter out
get_all_products_unfiltered(db, caller) ==
    IF ~token_required(db.users, caller) THEN Resp(401, db, <<>>, db)
    ELSE Resp(200, db, Ids(db.products), db)

\* GET /products: the ids of the products in the response
get_all_products(db, caller) ==
    IF ~token_required(db.users, caller) THEN Resp(401, db, <<>>, db)
    ELSE Resp(200, db, {p \in Ids(db.products) : db.products[p].is_active}, db)

\* GET /products/search?q=..&category=..: the ids of the products found
search_products(db, caller, args) ==
    IF ~token_required(db.users, caller) THEN Resp(401, db, <<>>, db)
    ELSE Resp(200, db,
              {p \in Ids(db.products) :
                  /\ db.products[p].is_active
                  /\ Get(args, "q", "") # "" => ILike(db.products[p].item_name, args.q)
                  /\ Get(args, "category", "") # "" => ILike(db.products[p].category, args.category)},
              db)

\* GET /products/categories: the categories in the response
get_categories(db, caller) ==
    IF ~token_required(db.users, caller) THEN Resp(401, db, <<>>, db)
    ELSE Resp(200, db,
              {db.products[p].category :
                  p \in {q \in Ids(db.products) : db.products[q].is_active /\ db.products[q].category # ""}},
              db)

\* GET /inventory/stock-levels: the entries of the response
get_stock_levels(db, caller) ==
    IF ~token_required(db.users, caller) THEN Resp(401, db, <<>>, db)
    ELSE Resp(200, db,
              {[product_id |-> p,
                current_stock |-> get_current_stock(db.inventory, p),
                stock_status |-> IF get_current_stock(db.inventory, p) < LowStockLimit
                                 THEN "low" ELSE "normal"] :
                  p \in {q \in Ids(db.products) : db.products[q].is_active}},
              db)

\* GET /inventory/low-stock?threshold=..: the entries of the response; a
\* threshold that is no integer counts as absent
get_low_stock_items(db, caller, args) ==
    IF ~token_required(db.users, caller) THEN Resp(401, db, <<>>, db)
    ELSE LET given == Get(args, "threshold", DefaultThreshold)
             threshold == IF given = BadNum THEN DefaultThreshold ELSE given
         IN  Resp(200, db,
                  {[product_id |-> p,
                    current_stock |-> get_current_stock(db.inventory, p),
                    urgency |-> IF get_current_stock(db.inventory, p) = 0 THEN "critical" ELSE "low"] :
                      p \in {q \in Ids(db.products) :
                                /\ db.products[q].is_active
                                /\ get_current_stock(db.inventory, q) <= threshold}},
                  db)

(***************************************************************************)
(* Order model.                                                            *)
(***************************************************************************)
\* calculate_total_price without the quantity
calculate_total_price_of_one(item) == [item EXCEPT !.total_price = item.unit_price]

calculate_total_price(item) == [item EXCEPT !.total_price = item.quantity * item.unit_price]

NewOrderItem(oid, pid, q, up) ==
    [order_id |-> oid, product_id |-> pid, quantity |-> q, unit_price |-> up, total_price |-> 0]

NewOrder(sp, cn, area, st, od) ==
    [sales_person_id |-> sp, customer_name |-> cn, delivery_area |-> area, status |-> st,
     total_value |-> 0, order_date |-> od, delivery_date |-> Null, updated_at |-> 0]

\* the two items create_sample_orders adds to every sample order
SampleItem(oid, i) ==
    calculate_total_price(NewOrderItem(oid, i + 1, 2 + i, SampleProducts[i + 1].trade_price))

SampleOrderItems == [k \in 1..6 |-> SampleItem(((k - 1) \div 2) + 1, (k - 1) % 2)]

SampleOrderData == <<
    [customer_name |-> "Ahmed Rahman",  delivery_area |-> "Dhanmondi", status |-> "delivered"],
    [customer_name |-> "Fatima Khatun", delivery_area |-> "lalbag",    status |-> "pending"],
    [customer_name |-> "Mohammad Ali",  delivery_area |-> "Newmarket", status |-> "processing"] >>

\* User.query.filter_by(role='sales').first()
FirstSales(us) == CHOOSE u \in Ids(us) : is_sales(us[u]) /\ \A v \in Ids(us) : is_sales(us[v]) => u <= v

SampleOrders ==
    [k \in 1..3 |->
        [NewOrder(FirstSales(SampleUsers), SampleOrderData[k].customer_name,
                  SampleOrderData[k].delivery_area, SampleOrderData[k].status, 0)
         EXCEPT !.total_value = SampleOrderItems[2 * k - 1].total_price + SampleOrderItems[2 * k].total_price]]

\* the permission check left out
order_forbidden_never(us, caller, order) == FALSE

\* the permission check of get_order and update_order_status
order_forbidden(us, caller, order) ==
    is_sales(us[caller]) /\ order.sales_person_id # caller

\* adding the item also takes its quantity off the product's latest record
AddOrderItemAndLift(pending, order_item) ==
    LET k == LatestInventory(pending.inventory, order_item.product_id, 1, 0)
        lifted == IF k = 0 THEN pending.inventory
                  ELSE [pending.inventory EXCEPT ![k].present_stock = @ - order_item.quantity]
    IN  [pending EXCEPT !.order_items = Append(pending.order_items, order_item),
                        !.inventory = lifted]

\* db.session.add(order_item): the item joins the pending unit of work
AddOrderItem(pending, order_item) ==
    [pending EXCEPT !.order_items = Append(pending.order_items, order_item)]

\* the body of 'for item_data in data["items"]' from the k-th line on: the
\* pending unit of work with the items added so far and the running total,
\* or the status code of the first line that fails
RECURSIVE ProcessItems(_, _, _, _, _, _)
ProcessItems(db, pending, order_id, items, k, total_value) ==
    IF k > Len(items) THEN [code |-> 201, pending |-> pending, total_value |-> total_value]
    ELSE
        LET item_data == items[k]
        IN  IF ~Has(item_data, "product_id") \/ ~Has(item_data, "quantity")
            THEN [code |-> 400, pending |-> pending, total_value |-> total_value]
            ELSE IF \/ item_data.product_id \notin Ids(db.products)
                    \/ ~db.products[item_data.product_id].is_active
            THEN [code |-> 400, pending |-> pending, total_value |-> total_value]
            ELSE IF item_data.quantity = BadNum
            THEN [code |-> 500, pending |-> pending, total_value |-> total_value]
            ELSE IF get_current_stock(db.inventory, item_data.product_id) < item_data.quantity
            THEN [code |-> 400, pending |-> pending, total_value |-> total_value]
            ELSE
                LET order_item == calculate_total_price(
                        NewOrderItem(order_id, item_data.product_id, item_data.quantity,
                                     db.products[item_data.product_id].trade_price))
                IN  ProcessItems(db, AddOrderItem(pending, order_item),
                                 order_id, items, k + 1, total_value + order_item.total_price)

\* POST /orders
create_order(db, caller, data, t) ==
    IF ~token_required(db.users, caller) THEN Resp(401, db, <<>>, db)
    ELSE IF DOMAIN data = {} THEN Resp(400, db, <<>>, db)
    ELSE IF ~Has(data, "customer_name") \/ ~Has(data, "delivery_area") \/ ~Has(data, "items")
         THEN Resp(400, db, <<>>, db)
    ELSE IF Len(data.items) = 0 THEN Resp(400, db, <<>>, db)
    ELSE
        LET order == [NewOrder(caller, data.customer_name, data.delivery_area, "pending", t)
                      EXCEPT !.updated_at = t]
            flushed == [db EXCEPT !.orders = Append(db.orders, order)]
            order_id == Len(flushed.orders)
            done == ProcessItems(db, flushed, order_id, data.items, 1, 0)
            pending == [done.pending EXCEPT !.orders[order_id].total_value = done.total_value]
        IN  IF done.code # 201
            THEN Resp(done.code, SessionRollback(db, done.pending), <<>>, SessionRollback(db, done.pending))
            ELSE Resp(201, SessionCommit(db, pending), order_id, SessionCommit(db, pending))

\* the stamp set whenever the new status is delivered
delivery_stamp_always(old_status, new_status, delivery_date, t) ==
    IF new_status = "delivered" THEN t ELSE delivery_date

\* the stamp cleared when the order leaves delivered
delivery_stamp_cleared(old_status, new_status, delivery_date, t) ==
    IF new_status = "delivered" /\ old_status # "delivered" THEN t
    ELSE IF new_status # "delivered" THEN Null
    ELSE delivery_date

\* 'if new_status == "delivered" and old_status != "delivered"':
\* the delivery_date the order has after the status update at time t
delivery_stamp(old_status, new_status, delivery_date, t) ==
    IF new_status = "delivered" /\ old_status # "delivered" THEN t ELSE delivery_date

\* a status update that treats cancelled as final
update_order_status_final(db, caller, order_id, data, t) ==
    IF ~token_required(db.users, caller) THEN Resp(401, db, <<>>, db)
    ELSE IF order_id \notin Ids(db.orders) THEN Resp(404, db, <<>>, db)
    ELSE IF order_forbidden(db.users, caller, db.orders[order_id]) THEN Resp(403, db, <<>>, db)
    ELSE IF ~Has(data, "status") THEN Resp(400, db, <<>>, db)
    ELSE IF data.status \notin ValidStatuses THEN Resp(400, db, <<>>, db)
    ELSE IF db.orders[order_id].status = "cancelled" THEN Resp(400, db, <<>>, db)
    ELSE
        LET order == db.orders[order_id]
            pending == [db EXCEPT !.orders[order_id] =
                            [order EXCEPT !.status = data.status,
                                          !.updated_at = t,
                                          !.delivery_date = delivery_stamp(order.status, data.status,
                                                                           order.delivery_date, t)]]
        IN  Resp(200, SessionCommit(db, pending), order_id, SessionCommit(db, pending))

\* PUT /orders/<order_id>/status
update_order_status(db, caller, order_id, data, t) ==
    IF ~token_required(db.users, caller) THEN Resp(401, db, <<>>, db)
    ELSE IF order_id \notin Ids(db.orders) THEN Resp(404, db, <<>>, db)
    ELSE IF order_forbidden(db.users, caller, db.orders[order_id]) THEN Resp(403, db, <<>>, db)
    ELSE IF ~Has(data, "status") THEN Resp(400, db, <<>>, db)
    ELSE IF data.status \notin ValidStatuses THEN Resp(400, db, <<>>, db)
    ELSE
        LET order == db.orders[order_id]
            pending == [db EXCEPT !.orders[order_id] =
                            [order EXCEPT !.status = data.status,
                                          !.updated_at = t,
                                          !.delivery_date = delivery_stamp(order.status, data.status,
                                                                           order.delivery_date, t)]]
        IN  Resp(200, SessionCommit(db, pending), order_id, SessionCommit(db, pending))

\* GET /orders/<order_id>: the id of the order in the response
get_order(db, caller, order_id) ==
    IF ~token_required(db.users, caller) THEN Resp(401, db, <<>>, db)
    ELSE IF order_id \notin Ids(db.orders) THEN Resp(404, db, <<>>, db)
    ELSE IF order_forbidden(db.users, caller, db.orders[order_id]) THEN Resp(403, db, <<>>, db)
    ELSE Resp(200, db, {order_id}, db)

\* GET /orders[?status=s]: the ids of the orders in the response (the tables
\* of the model stay below the page size of 20)
get_orders(db, caller, data) ==
    IF ~token_required(db.users, caller) THEN Resp(401, db, <<>>, db)
    ELSE Resp(200, db,
              {o \in Ids(db.orders) :
                  /\ is_sales(db.users[caller]) => db.orders[o].sales_person_id = caller
                  /\ Has(data, "status") => db.orders[o].status = data.status},
              db)

(***************************************************************************)
(* User administration.                                                    *)
(***************************************************************************)
\* GET /users
get_users(db, caller) ==
    IF ~token_required(db.users, caller) THEN Resp(401, db, <<>>, db)
    ELSE IF ~is_admin(db.users[caller]) THEN Resp(403, db, <<>>, db)
    ELSE Resp(200, db, Ids(db.users), db)

\* GET /users/<user_id>
get_user(db, caller, user_id) ==
    IF ~token_required(db.users, caller) THEN Resp(401, db, <<>>, db)
    ELSE IF user_id \notin Ids(db.users) THEN Resp(404, db, <<>>, db)
    ELSE IF ~is_admin(db.users[caller]) /\ caller # user_id THEN Resp(403, db, <<>>, db)
    ELSE Resp(200, db, {user_id}, db)

\* GET /users/sales: the ids of the users whose records are in the response
get_sales_users(db, caller) ==
    IF ~token_required(db.users, caller) THEN Resp(401, db, <<>>, db)
    ELSE Resp(200, db, {u \in Ids(db.users) : db.users[u].role = "sales" /\ db.users[u].is_active}, db)

\* GET /users/stats: counts only, no user record
get_user_stats(db, caller) ==
    IF ~token_required(db.users, caller) THEN Resp(401, db, <<>>, db)
    ELSE IF ~is_admin(db.users[caller]) THEN Resp(403, db, <<>>, db)
    ELSE Resp(200, db, {}, db)

\* a delete that removes the row
delete_user_hard(db, caller, user_id) ==
    IF ~token_required(db.users, caller) THEN Resp(401, db, <<>>, db)
    ELSE IF ~is_admin(db.users[caller]) THEN Resp(403, db, <<>>, db)
    ELSE IF user_id \notin Ids(db.users) THEN Resp(404, db, <<>>, db)
    ELSE IF user_id = caller THEN Resp(400, db, <<>>, db)
    ELSE LET pending == [db EXCEPT !.users = SubSeq(db.users, 1, user_id - 1)
                                             \o SubSeq(db.users, user_id + 1, Len(db.users))]
         IN  Resp(200, SessionCommit(db, pending), user_id, SessionCommit(db, pending))

\* DELETE /users/<user_id>
delete_user(db, caller, user_id) ==
    IF ~token_required(db.users, caller) THEN Resp(401, db, <<>>, db)
    ELSE IF ~is_admin(db.users[caller]) THEN Resp(403, db, <<>>, db)
    ELSE IF user_id \notin Ids(db.users) THEN Resp(404, db, <<>>, db)
    ELSE IF user_id = caller THEN Resp(400, db, <<>>, db)
    ELSE LET pending == [db EXCEPT !.users[user_id].is_active = FALSE]
         IN  Resp(200, SessionCommit(db, pending), user_id, SessionCommit(db, pending))

(***************************************************************************)
(* Accounts: registration and the user write requests.                     *)
(***************************************************************************)
\* str.strip() on the strings the requests carry: blanks at both ends go
Strip(str) ==
    CASE str = " sales1 " -> "sales1"
      [] str = " rahim " -> "rahim"
      [] str = " sales2@pentagon.com" -> "sales2@pentagon.com"
      [] str = "   " -> ""
      [] OTHER -> str

\* str.lower() on the role names the requests carry
Lower(str) ==
    CASE str = "Admin" -> "admin"
      [] str = "ADMIN" -> "admin"
      [] str = "Sales" -> "sales"
      [] OTHER -> str

RequiredUserFields == <<"username", "email", "password", "full_name">>

\* 'if field not in data or not data[field].strip()' for some required field
MissingUserField(data) ==
    \E k \in 1..Len(RequiredUserFields) :
        ~Has(data, RequiredUserFields[k]) \/ Strip(data[RequiredUserFields[k]]) = ""

\* User.query.filter_by(username=...).first() finds a row
UsernameTaken(us, username) == \E u \in Ids(us) : us[u].username = username

\* the email lookup restricted to active accounts
EmailTakenByActive(us, email, except) ==
    \E u \in Ids(us) : u # except /\ us[u].is_active /\ us[u].email = email

\* User.query.filter(User.email == ..., User.id != except).first() finds a
\* row; except is 0 where the query has no such condition
EmailTaken(us, email, except) == \E u \in Ids(us) : u # except /\ us[u].email = email

\* the UNIQUE constraints on user.username and user.email, checked by the
\* database when the unit of work is flushed: IntegrityError
IntegrityError(us) ==
    \E u, v \in Ids(us) :
        u # v /\ (us[u].username = us[v].username \/ us[u].email = us[v].email)

\* User(...) with the column default of is_active
NewUser(data, role) ==
    [username |-> Strip(data.username), email |-> Strip(data.email),
     full_name |-> Strip(data.full_name), phone |-> Strip(Get(data, "phone", "")),
     role |-> role, is_active |-> TRUE,
     password_hash |-> generate_password_hash(data.password), last_login |-> Null]

\* db.session.add(user); db.session.commit() and the except clause around it
AddUser(db, user) ==
    LET pending == [db EXCEPT !.users = Append(db.users, user)]
    IN  IF IntegrityError(pending.users)
        THEN Resp(500, SessionRollback(db, pending), <<>>, SessionRollback(db, pending))
        ELSE Resp(201, SessionCommit(db, pending), Len(pending.users), SessionCommit(db, pending))

\* the role taken from the request body, as create_user does
RegisteredRoleAsSent(data) == Lower(Get(data, "role", "sales"))

\* the role every registration gets
RegisteredRole(data) == "sales"

\* POST /register (no token)
register(db, data) ==
    IF DOMAIN data = {} THEN Resp(400, db, <<>>, db)
    ELSE IF MissingUserField(data) THEN Resp(400, db, <<>>, db)
    ELSE IF UsernameTaken(db.users, Strip(data.username)) THEN Resp(400, db, <<>>, db)
    ELSE IF EmailTaken(db.users, Strip(data.email), 0) THEN Resp(400, db, <<>>, db)
    ELSE AddUser(db, NewUser(data, RegisteredRole(data)))

\* POST /users
create_user(db, caller, data) ==
    IF ~token_required(db.users, caller) THEN Resp(401, db, <<>>, db)
    ELSE IF ~is_admin(db.users[caller]) THEN Resp(403, db, <<>>, db)
    ELSE IF DOMAIN data = {} THEN Resp(400, db, <<>>, db)
    ELSE IF MissingUserField(data) THEN Resp(400, db, <<>>, db)
    ELSE IF UsernameTaken(db.users, Strip(data.username)) THEN Resp(400, db, <<>>, db)
    ELSE IF EmailTaken(db.users, Strip(data.email), 0) THEN Resp(400, db, <<>>, db)
    ELSE IF Lower(Get(data, "role", "sales")) \notin {"admin", "sales"} THEN Resp(400, db, <<>>, db)
    ELSE AddUser(db, NewUser(data, Lower(Get(data, "role", "sales"))))

\* the full_name and phone assignments that open update_user and
\* update_profile
AssignContact(user, data) ==
    LET named == IF Has(data, "full_name") /\ Strip(data.full_name) # ""
                 THEN [user EXCEPT !.full_name = Strip(data.full_name)] ELSE user
    IN  IF Has(data, "phone") THEN [named EXCEPT !.phone = Strip(data.phone)] ELSE named

\* 'if current_user.is_admin():' in update_user: may the caller set role and
\* is_active
MaySetRole(us, caller) == is_admin(us[caller])

\* the commit that ends a user update and the except clause around it
SaveUser(db, user_id, user) ==
    LET pending == [db EXCEPT !.users[user_id] = user]
    IN  IF IntegrityError(pending.users)
        THEN Resp(500, SessionRollback(db, pending), <<>>, SessionRollback(db, pending))
        ELSE Resp(200, SessionCommit(db, pending), user_id, SessionCommit(db, pending))

\* PUT /users/<user_id>
update_user(db, caller, user_id, data) ==
    IF ~token_required(db.users, caller) THEN Resp(401, db, <<>>, db)
    ELSE IF user_id \notin Ids(db.users) THEN Resp(404, db, <<>>, db)
    ELSE IF ~is_admin(db.users[caller]) /\ caller # user_id THEN Resp(403, db, <<>>, db)
    ELSE IF DOMAIN data = {} THEN Resp(400, db, <<>>, db)
    ELSE
        LET contact == AssignContact(db.users[user_id], data)
            newEmail == Has(data, "email") /\ Strip(data.email) # ""
            mailed == IF newEmail THEN [contact EXCEPT !.email = Strip(data.email)] ELSE contact
            admin == MaySetRole(db.users, caller)
            roled == IF admin /\ Has(data, "role")
                     THEN [mailed EXCEPT !.role = Lower(data.role)] ELSE mailed
            user == IF admin /\ Has(data, "is_active")
                    THEN [roled EXCEPT !.is_active = PyBool(data.is_active)] ELSE roled
        IN  IF newEmail /\ EmailTaken(db.users, Strip(data.email), user_id)
            THEN Resp(400, db, <<>>, [db EXCEPT !.users[user_id] = contact])
            ELSE IF admin /\ Has(data, "role") /\ Lower(data.role) \notin {"admin", "sales"}
            THEN Resp(400, db, <<>>, [db EXCEPT !.users[user_id] = mailed])
            ELSE SaveUser(db, user_id, user)

\* PUT /profile
update_profile(db, caller, data) ==
    IF ~token_required(db.users, caller) THEN Resp(401, db, <<>>, db)
    ELSE IF DOMAIN data = {} THEN Resp(400, db, <<>>, db)
    ELSE
        LET contact == AssignContact(db.users[caller], data)
            newEmail == Has(data, "email") /\ Strip(data.email) # ""
            user == IF newEmail THEN [contact EXCEPT !.email = Strip(data.email)] ELSE contact
        IN  IF newEmail /\ EmailTaken(db.users, Strip(data.email), caller)
            THEN Resp(400, db, <<>>, [db EXCEPT !.users[caller] = contact])
            ELSE SaveUser(db, caller, user)

\* POST /login: the id of the user logged in; update_last_login commits
login(db, data, t) ==
    IF DOMAIN data = {} THEN Resp(400, db, <<>>, db)
    ELSE
        LET username_or_email == Strip(Get(data, "username", ""))
            password == Get(data, "password", "")
            found == {u \in Ids(db.users) :
                         \/ db.users[u].username = username_or_email
                         \/ db.users[u].email = username_or_email}
            user == CHOOSE u \in found : \A v \in found : u <= v
            pending == [db EXCEPT !.users[user].last_login = t]
        IN  IF username_or_email = "" \/ password = "" THEN Resp(400, db, <<>>, db)
            ELSE IF found = {} THEN Resp(401, db, <<>>, db)
            ELSE IF ~check_password(db.users[user], password) THEN Resp(401, db, <<>>, db)
            ELSE IF ~db.users[user].is_active THEN Resp(401, db, <<>>, db)
            ELSE Resp(200, SessionCommit(db, pending), user, SessionCommit(db, pending))

(***************************************************************************)
(* Requests served side by side.                                           *)
(***************************************************************************)
\* no handler is between its first statement and its answer
NoRequest ==
    [stage |-> "none", caller |-> 0, items |-> <<>>,
     order |-> NewOrder(0, "", "", "pending", 0), added |-> <<>>, total_value |-> 0]

\* a database with no lock between connections
DatabaseLockedNever(fl) == FALSE

\* the database is the SQLite file of SQLALCHEMY_DATABASE_URI: a connection
\* that has written in its transaction (the flush of the order) holds the
\* write lock of the file until it commits or rolls back, and the write of
\* another connection fails meanwhile (OperationalError: database is locked)
DatabaseLocked(fl) == fl.stage \in {"flushed", "checked"}

\* the answer of a write request of another connection: its commit raises
\* while the database is locked, and the except clause rolls back and
\* answers 500
Beside(fl, db, r) ==
    IF r.code \in {200, 201} /\ DatabaseLocked(fl)
    THEN Resp(500, SessionRollback(db, r.pending), <<>>, SessionRollback(db, r.pending))
    ELSE r

(***************************************************************************)
(* State after startup: tables created and the sample data committed.      *)
(***************************************************************************)
\* the connections that serve inventory requests side by side
MaxConnections == 2

Connections == 1..MaxConnections

\* the connection serves no inventory request
Idle ==
    [stage |-> "none", caller |-> 0, id |-> 0, loaded |-> NewInventory(0, 0, 0, 0, 0, 0),
     data |-> [f \in {} |-> 0]]

\* the UPDATE a flush emits for a loaded row: it sets the columns whose value
\* in the unit of work differs from the value loaded, and leaves the others
\* of the stored row as they are
FlushChanged(row, loaded, mine) ==
    [f \in DOMAIN row |-> IF mine[f] # loaded[f] THEN mine[f] ELSE row[f]]

\* the INSERT is refused by no constraint: Inventory declares none on
\* (product_id, date)
InsertRefused(inv, row) == FALSE

Init ==
    /\ users = SampleUsers
    /\ products = SampleProducts
    /\ inventory = SampleInventory
    /\ orders = SampleOrders
    /\ order_items = SampleOrderItems
    /\ now = 0
    /\ last = [op |-> "startup", caller |-> 0, id |-> 0,
                code |-> 0, out |-> <<>>, dirty |-> FALSE]
    /\ inflight = NoRequest
    /\ working = [c \in Connections |-> Idle]

(***************************************************************************)
(* One request: the handler runs to completion, its committed state        *)
(* becomes the store, and the request and its response are kept in last.   *)
(* A request that changes the store takes the next clock reading           *)
(* (datetime.utcnow()); limit bounds the clock.                            *)
(***************************************************************************)
\* a session that outlives its request: what it still holds is written with
\* the next flush
shutdown_session_kept(committed, pending) == pending

\* the teardown db.init_app(app) registers: session.remove() at the end of
\* every request, which discards whatever the unit of work holds uncommitted
shutdown_session(committed, pending) == committed

Store(r, limit) ==
    LET stored == shutdown_session(r.db, r.pending)
    IN  /\ stored # Db => now < limit
        /\ users' = stored.users
        /\ products' = stored.products
        /\ inventory' = stored.inventory
        /\ orders' = stored.orders
        /\ order_items' = stored.order_items
        /\ now' = IF stored # Db THEN now + 1 ELSE now
        /\ inflight' = inflight
        /\ working' = working

Answer(op, caller, id, r) ==
    [op |-> op, caller |-> caller, id |-> id,
     code |-> r.code, out |-> r.out, dirty |-> r.pending # r.db]

CreateInventoryRecord(callers, bodies, limit) ==
    \E caller \in callers, data \in bodies :
        LET r == create_inventory_record(Db, caller, data)
        IN  /\ Store(r, limit)
            /\ last' = Answer("create_inventory_record", caller, 0, r)

UpdateInventoryRecord(callers, ids, bodies, limit) ==
    \E caller \in callers, inventory_id \in ids, data \in bodies :
        LET r == update_inventory_record(Db, caller, inventory_id, data)
        IN  /\ Store(r, limit)
            /\ last' = Answer("update_inventory_record", caller, inventory_id, r)

GetProductInventory(callers, ids, limit) ==
    \E caller \in callers, product_id \in ids :
        LET r == get_product_inventory(Db, caller, product_id)
        IN  /\ Store(r, limit)
            /\ last' = Answer("get_product_inventory", caller, product_id, r)

CreateProduct(callers, bodies, limit) ==
    \E caller \in callers, data \in bodies :
        LET r == create_product(Db, caller, data)
        IN  /\ Store(r, limit)
            /\ last' = Answer("create_product", caller, 0, r)

UpdateProduct(callers, ids, bodies, limit) ==
    \E caller \in callers, product_id \in ids, data \in bodies :
        LET r == update_product(Db, caller, product_id, data)
        IN  /\ Store(r, limit)
            /\ last' = Answer("update_product", caller, product_id, r)

DeleteProduct(callers, ids, limit) ==
    \E caller \in callers, product_id \in ids :
        LET r == delete_product(Db, caller, product_id)
        IN  /\ Store(r, limit)
            /\ last' = Answer("delete_product", caller, product_id, r)

CreateOrder(callers, bodies, limit) ==
    \E caller \in callers, data \in bodies :
        LET r == create_order(Db, caller, data, now + 1)
        IN  /\ Store(r, limit)
            /\ last' = Answer("create_order", caller, 0, r)

UpdateOrderStatus(callers, ids, bodies, limit) ==
    \E caller \in callers, order_id \in ids, data \in bodies :
        LET r == update_order_status(Db, caller, order_id, data, now + 1)
        IN  /\ Store(r, limit)
            /\ last' = Answer("update_order_status", caller, order_id, r)

GetOrder(callers, ids, limit) ==
    \E caller \in callers, order_id \in ids :
        LET r == get_order(Db, caller, order_id)
        IN  /\ Store(r, limit)
            /\ last' = Answer("get_order", caller, order_id, r)

GetOrders(callers, filters, limit) ==
    \E caller \in callers, data \in filters :
        LET r == get_orders(Db, caller, data)
        IN  /\ Store(r, limit)
            /\ last' = Answer("get_orders", caller, 0, r)

GetUsers(callers, limit) ==
    \E caller \in callers :
        LET r == get_users(Db, caller)
        IN  /\ Store(r, limit)
            /\ last' = Answer("get_users", caller, 0, r)

GetUser(callers, ids, limit) ==
    \E caller \in callers, user_id \in ids :
        LET r == get_user(Db, caller, user_id)
        IN  /\ Store(r, limit)
            /\ last' = Answer("get_user", caller, user_id, r)

GetSalesUsers(callers, limit) ==
    \E caller \in callers :
        LET r == get_sales_users(Db, caller)
        IN  /\ Store(r, limit)
            /\ last' = Answer("get_sales_users", caller, 0, r)

GetUserStats(callers, limit) ==
    \E caller \in callers :
        LET r == get_user_stats(Db, caller)
        IN  /\ Store(r, limit)
            /\ last' = Answer("get_user_stats", caller, 0, r)

DeleteUser(callers, ids, limit) ==
    \E caller \in callers, user_id \in ids :
        LET r == delete_user(Db, caller, user_id)
        IN  /\ Store(r, limit)
            /\ last' = Answer("delete_user", caller, user_id, r)

GetAllProducts(callers, limit) ==
    \E caller \in callers :
        LET r == get_all_products(Db, caller)
        IN  /\ Store(r, limit)
            /\ last' = Answer("get_all_products", caller, 0, r)

SearchProducts(callers, queries, limit) ==
    \E caller \in callers, args \in queries :
        LET r == search_products(Db, caller, args)
        IN  /\ Store(r, limit)
            /\ last' = Answer("search_products", caller, 0, r)

GetCategories(callers, limit) ==
    \E caller \in callers :
        LET r == get_categories(Db, caller)
        IN  /\ Store(r, limit)
            /\ last' = Answer("get_categories", caller, 0, r)

GetStockLevels(callers, limit) ==
    \E caller \in callers :
        LET r == get_stock_levels(Db, caller)
        IN  /\ Store(r, limit)
            /\ last' = Answer("get_stock_levels", caller, 0, r)

GetLowStockItems(callers, queries, limit) ==
    \E caller \in callers, args \in queries :
        LET r == get_low_stock_items(Db, caller, args)
        IN  /\ Store(r, limit)
            /\ last' = Answer("get_low_stock_items", caller, 0, r)

Register(bodies, limit) ==
    \E data \in bodies :
        LET r == register(Db, data)
        IN  /\ Store(r, limit)
            /\ last' = Answer("register", 0, 0, r)

CreateUser(callers, bodies, limit) ==
    \E caller \in callers, data \in bodies :
        LET r == create_user(Db, caller, data)
        IN  /\ Store(r, limit)
            /\ last' = Answer("create_user", caller, 0, r)

UpdateUser(callers, ids, bodies, limit) ==
    \E caller \in callers, user_id \in ids, data \in bodies :
        LET r == update_user(Db, caller, user_id, data)
        IN  /\ Store(r, limit)
            /\ last' = Answer("update_user", caller, user_id, r)

UpdateProfile(callers, bodies, limit) ==
    \E caller \in callers, data \in bodies :
        LET r == update_profile(Db, caller, data)
        IN  /\ Store(r, limit)
            /\ last' = Answer("update_profile", caller, caller, r)

Login(bodies, limit) ==
    \E data \in bodies :
        LET r == login(Db, data, now + 1)
        IN  /\ Store(r, limit)
            /\ last' = Answer("login", 0, 0, r)

\* create_order up to db.session.flush(): the request passed the checks of
\* its body and its order row is written in the transaction of its connection
OrderFlush(callers, bodies, limit) ==
    \E caller \in callers, data \in bodies :
        /\ inflight.stage = "none"
        /\ now < limit
        /\ token_required(users, caller)
        /\ Has(data, "customer_name") /\ Has(data, "delivery_area") /\ Has(data, "items")
        /\ Len(data.items) > 0
        /\ inflight' = [stage |-> "flushed", caller |-> caller, items |-> data.items,
                        order |-> [NewOrder(caller, data.customer_name, data.delivery_area,
                                            "pending", now + 1)
                                   EXCEPT !.updated_at = now + 1],
                        added |-> <<>>, total_value |-> 0]
        /\ UNCHANGED <<users, products, inventory, orders, order_items, now, last, working>>

\* the loop over the lines of the order: every line is checked against the
\* store as it is now and its item joins the unit of work, or the first
\* failing line rolls the unit of work back and answers
OrderCheck ==
    /\ inflight.stage = "flushed"
    /\ LET flushed == [Db EXCEPT !.orders = Append(orders, inflight.order)]
           done == ProcessItems(Db, flushed, Len(flushed.orders), inflight.items, 1, 0)
       IN  IF done.code # 201
           THEN /\ inflight' = NoRequest
                /\ last' = [op |-> "create_order", caller |-> inflight.caller, id |-> 0,
                            code |-> done.code, out |-> <<>>, dirty |-> FALSE]
           ELSE /\ inflight' = [inflight EXCEPT
                                    !.stage = "checked",
                                    !.added = SubSeq(done.pending.order_items, Len(order_items) + 1,
                                                     Len(done.pending.order_items)),
                                    !.total_value = done.total_value]
                /\ last' = last
    /\ UNCHANGED <<users, products, inventory, orders, order_items, now, working>>

\* order.total_value = total_value; db.session.commit(): the order and its
\* items reach the store as it is now, and the request answers 201
OrderCommit ==
    /\ inflight.stage = "checked"
    /\ orders' = Append(orders, [inflight.order EXCEPT !.total_value = inflight.total_value])
    /\ order_items' = order_items \o
            [k \in 1..Len(inflight.added) |-> [inflight.added[k] EXCEPT !.order_id = Len(orders) + 1]]
    /\ now' = now + 1
    /\ last' = [op |-> "create_order", caller |-> inflight.caller, id |-> 0,
                code |-> 201, out |-> Len(orders) + 1, dirty |-> FALSE]
    /\ inflight' = NoRequest
    /\ UNCHANGED <<users, products, inventory, working>>

\* PUT /inventory/<id> served on another connection, before, during or after
\* the order request
InventoryWriteBeside(callers, ids, bodies, limit) ==
    \E caller \in callers, inventory_id \in ids, data \in bodies :
        LET r == Beside(inflight, Db, update_inventory_record(Db, caller, inventory_id, data))
        IN  /\ Store(r, limit)
            /\ last' = Answer("update_inventory_record", caller, inventory_id, r)

\* update_inventory_record up to Inventory.query.get(inventory_id): an admin's
\* request with a body that converts, its row read into the session
InventoryLoad(conns, callers, ids, bodies) ==
    \E c \in conns, caller \in callers, inventory_id \in ids, data \in bodies :
        /\ working[c].stage = "none"
        /\ token_required(users, caller) /\ is_admin(users[caller])
        /\ inventory_id \in Ids(inventory)
        /\ DOMAIN data # {}
        /\ AssignMoveFields(inventory[inventory_id], data, 1).ok
        /\ working' = [working EXCEPT ![c] =
                          [stage |-> "loaded", caller |-> caller, id |-> inventory_id,
                           loaded |-> inventory[inventory_id], data |-> data]]
        /\ UNCHANGED <<users, products, inventory, orders, order_items, now, last, inflight>>

\* the rest of update_inventory_record: the fields of the body assigned to
\* the row as loaded, calculate_totals, db.session.commit()
InventoryCommit(conns, limit) ==
    \E c \in conns :
        /\ working[c].stage = "loaded"
        /\ now < limit
        /\ ~DatabaseLocked(inflight)
        /\ LET w == working[c]
               mine == calculate_totals(AssignMoveFields(w.loaded, w.data, 1).rec)
           IN  inventory' = [inventory EXCEPT ![w.id] = FlushChanged(@, w.loaded, mine)]
        /\ now' = now + 1
        /\ last' = [op |-> "update_inventory_record", caller |-> working[c].caller,
                    id |-> working[c].id, code |-> 200, out |-> working[c].id, dirty |-> FALSE]
        /\ working' = [working EXCEPT ![c] = Idle]
        /\ UNCHANGED <<users, products, orders, order_items, inflight>>

\* create_inventory_record up to 'if existing_record': an admin's request
\* for a product and a date that have no record now
InventoryCheck(conns, callers, bodies) ==
    \E c \in conns, caller \in callers, data \in bodies :
        /\ working[c].stage = "none"
        /\ create_inventory_record(Db, caller, data).code = 201
        /\ working' = [working EXCEPT ![c] =
                          [stage |-> "checked", caller |-> caller, id |-> 0,
                           loaded |-> Idle.loaded, data |-> data]]
        /\ UNCHANGED <<users, products, inventory, orders, order_items, now, last, inflight>>

\* the rest of create_inventory_record: Inventory(...), calculate_totals,
\* db.session.add, db.session.commit()
InventoryInsert(conns, limit) ==
    \E c \in conns :
        /\ working[c].stage = "checked"
        /\ now < limit
        /\ ~DatabaseLocked(inflight)
        /\ LET data == working[c].data
               row == calculate_totals(
                          NewInventory(data.product_id, Get(data, "date", Today),
                                       Get(data, "opening_pieces", 0), Get(data, "lifting_pieces", 0),
                                       Get(data, "return_market_pieces", 0),
                                       Get(data, "return_office_pieces", 0)))
           IN  IF InsertRefused(inventory, row)
               THEN /\ inventory' = inventory
                    /\ now' = now
                    /\ last' = [op |-> "create_inventory_record", caller |-> working[c].caller,
                                id |-> 0, code |-> 500, out |-> <<>>, dirty |-> FALSE]
               ELSE /\ inventory' = Append(inventory, row)
                    /\ now' = now + 1
                    /\ last' = [op |-> "create_inventory_record", caller |-> working[c].caller,
                                id |-> 0, code |-> 201, out |-> Len(inventory) + 1, dirty |-> FALSE]
        /\ working' = [working EXCEPT ![c] = Idle]
        /\ UNCHANGED <<users, products, orders, order_items, inflight>>

(***************************************************************************)
(* Requests explored.  Users 1 and 4 are admins, 2 and 3 sales; caller 0   *)
(* carries no valid token.                                                 *)
(***************************************************************************)
NoData == [f \in {} |-> 0]

MoveVals == {30, BadNum}

\* bodies of PUT /inventory/<id>
MoveBodies ==
    UNION {[S -> MoveVals] : S \in {{}, {"opening_pieces"}, {"lifting_pieces"},
                                    {"return_market_pieces"}, {"return_office_pieces"},
                                    {"opening_pieces", "lifting_pieces"}}}

\* bodies of POST /inventory
InventoryBodies ==
    {k @@ m : k \in {NoData, [product_id |-> 4], [product_id |-> 4, date |-> Today - 1],
                     [product_id |-> 1, date |-> Today + 1]},
              m \in {NoData, [lifting_pieces |-> 30], [opening_pieces |-> BadNum]}}

(***************************************************************************)
(* Inventory keeping: stock records written and read, products created,    *)
(* changed and deactivated.                                                *)
(***************************************************************************)
NextInventory ==
    \/ CreateInventoryRecord({0, 1, 2}, InventoryBodies, MaxTime)
    \/ UpdateInventoryRecord({0, 1, 2}, {1, 10}, MoveBodies, MaxTime)
    \/ GetProductInventory({2}, {1, 4}, MaxTime)
    \/ CreateProduct({1, 2}, {[item_name |-> "Kodomo Soap", trade_price |-> 100]}, MaxTime)
    \/ UpdateProduct({1, 2}, {3}, {[trade_price |-> 100]}, MaxTime)
    \/ DeleteProduct({1, 2}, {3}, MaxTime)

SpecInventory == Init /\ [][NextInventory]_vars

(***************************************************************************)
(* Order taking: orders created while an admin changes a price, the        *)
(* catalog and the stock.                                                  *)
(***************************************************************************)
MaxLines == 2

OrderLines ==
    {[product_id |-> 1, quantity |-> 2], [product_id |-> 2, quantity |-> 1],
     [product_id |-> 2, quantity |-> 21], [product_id |-> 4, quantity |-> 1]}

ItemLists == UNION {[1..n -> OrderLines] : n \in 1..MaxLines}

\* bodies of POST /orders
OrderBodies ==
    {[customer_name |-> "Karim", delivery_area |-> "Dhanmondi", items |-> its] : its \in ItemLists}
    \cup {[customer_name |-> "Karim", delivery_area |-> "Dhanmondi", items |-> <<>>],
          [customer_name |-> "Karim", items |-> <<[product_id |-> 1, quantity |-> 2]>>]}

NextOrders ==
    \/ CreateOrder({2}, OrderBodies, MaxTime)
    \/ UpdateProduct({1}, {2}, {[trade_price |-> 100]}, MaxTime)
    \/ DeleteProduct({1}, {2}, MaxTime)
    \/ UpdateInventoryRecord({1}, {1}, {[lifting_pieces |-> 30]}, MaxTime)

SpecOrders == Init /\ [][NextOrders]_vars

(***************************************************************************)
(* Order follow-up: orders read and moved from status to status.           *)
(***************************************************************************)
StatusBodies ==
    {[status |-> s] : s \in {"pending", "delivered", "cancelled", "shipped"}} \cup {NoData}

OrderFilters == {NoData, [status |-> "pending"]}

NextStatus ==
    \/ UpdateOrderStatus({1, 2, 3}, {1, 2, 4}, StatusBodies, MaxStatusTime)
    \/ GetOrder({1, 2, 3}, {2, 4, 9}, MaxStatusTime)
    \/ GetOrders({1, 2, 3}, OrderFilters, MaxStatusTime)
    \/ CreateOrder({3}, {[customer_name |-> "Karim", delivery_area |-> "Dhanmondi",
                          items |-> <<[product_id |-> 1, quantity |-> 2]>>]}, MaxStatusTime)

SpecStatus == Init /\ [][NextStatus]_vars

(***************************************************************************)
(* User administration: accounts read and deactivated.                     *)
(***************************************************************************)
NextUsers ==
    \/ GetUsers({0, 1, 2, 3}, MaxTime)
    \/ GetUser({0, 1, 2, 3}, {1, 2, 3, 5}, MaxTime)
    \/ GetSalesUsers({0, 1, 2, 3}, MaxTime)
    \/ GetUserStats({0, 1, 2, 3}, MaxTime)
    \/ DeleteUser({1, 2, 4}, {1, 2, 3, 5}, MaxTime)

SpecUsers == Init /\ [][NextUsers]_vars

(***************************************************************************)
(* The order book while the rest of the store is written: an order is      *)
(* taken, moved on, and the products, the stock and the users change.      *)
(***************************************************************************)
OneOrder == [customer_name |-> "Karim", delivery_area |-> "Dhanmondi",
             items |-> <<[product_id |-> 1, quantity |-> 2], [product_id |-> 2, quantity |-> 1]>>]

NextOrderBook ==
    \/ CreateOrder({2}, {OneOrder}, MaxStatusTime)
    \/ UpdateOrderStatus({1, 2}, {1, 4}, {[status |-> "delivered"], [status |-> "cancelled"]}, MaxStatusTime)
    \/ UpdateProduct({1}, {1}, {[trade_price |-> 100], [item_name |-> "Kodomo Soap"]}, MaxStatusTime)
    \/ DeleteProduct({1}, {1}, MaxStatusTime)
    \/ CreateInventoryRecord({1}, {[product_id |-> 1, date |-> Today + 1]}, MaxStatusTime)
    \/ UpdateInventoryRecord({1}, {1}, {[lifting_pieces |-> 30]}, MaxStatusTime)
    \/ UpdateUser({1, 2}, {2}, {[full_name |-> "Karim", is_active |-> FALSE]}, MaxStatusTime)
    \/ DeleteUser({1}, {2}, MaxStatusTime)

SpecOrderBook == Init /\ [][NextOrderBook]_vars

(***************************************************************************)
(* Accounts: people register, admins create, change and deactivate         *)
(* accounts, users change their own profile; a product is created and one  *)
(* is deactivated.                                                         *)
(***************************************************************************)
Rahim == [username |-> "rahim", email |-> "rahim@pentagon.com", password |-> "secret1",
          full_name |-> "Rahim"]

\* bodies of POST /register and POST /users
AccountBodies ==
    {Rahim, [role |-> "Admin"] @@ Rahim, [username |-> " sales1 "] @@ Rahim}

\* bodies of PUT /users/<id> and PUT /profile
ProfileBodies ==
    {[full_name |-> "Karim", email |-> "sales2@pentagon.com"],
     [phone |-> "+880175555555", role |-> "manager"],
     [role |-> "admin", is_active |-> FALSE]}

NextAccounts ==
    \/ Register(AccountBodies, MaxTime)
    \/ CreateUser({1, 2}, AccountBodies, MaxTime)
    \/ UpdateUser({0, 1, 2}, {2, 3}, ProfileBodies, MaxTime)
    \/ UpdateProfile({2}, ProfileBodies \cup {[email |-> "rahim@pentagon.com"]}, MaxTime)
    \/ DeleteUser({1, 2}, {3}, MaxTime)
    \/ CreateProduct({1}, {[item_name |-> "Kodomo Soap", trade_price |-> 100]}, MaxTime)
    \/ DeleteProduct({1}, {3}, MaxTime)
    \/ UpdateProduct({1}, {3}, {[item_name |-> SoapName, trade_price |-> BadNum]}, MaxTime)
    \/ UpdateInventoryRecord({1}, {1}, {[opening_pieces |-> 30, lifting_pieces |-> BadNum]}, MaxTime)

SpecAccounts == Init /\ [][NextAccounts]_vars

(***************************************************************************)
(* The catalog: products created, renamed, repriced, deactivated and       *)
(* reactivated while sales users read the listings and take orders.        *)
(***************************************************************************)
\* bodies of POST /products
CatalogProducts ==
    {[item_name |-> SoapName, trade_price |-> 100, category |-> "Soap"],
     [item_name |-> SampleProducts[3].item_name, trade_price |-> 100],
     [item_name |-> "Kodomo Brush", trade_price |-> -5]}

\* bodies of PUT /products/<id>
CatalogChanges ==
    {[is_active |-> TRUE], [item_name |-> SoapName],
     [item_name |-> SampleProducts[2].item_name], [return_price_market |-> -5]}

OrderOf(lines) == [customer_name |-> "Karim", delivery_area |-> "Dhanmondi", items |-> lines]

CatalogOrders ==
    {OrderOf(<<[product_id |-> 3, quantity |-> 1]>>),
     OrderOf(<<[product_id |-> 1, quantity |-> 2], [product_id |-> 3, quantity |-> 1]>>)}

SearchQueries == {NoData, [q |-> "KODOMO"], [q |-> "soap"], [category |-> "dental"]}

ThresholdQueries == {NoData, [threshold |-> 25], [threshold |-> BadNum]}

NextCatalog ==
    \/ CreateProduct({1}, CatalogProducts, MaxTime)
    \/ UpdateProduct({1}, {3, 4}, CatalogChanges, MaxTime)
    \/ DeleteProduct({1}, {3, 4}, MaxTime)
    \/ CreateOrder({2}, CatalogOrders, MaxTime)
    \/ GetAllProducts({2}, MaxTime)
    \/ SearchProducts({2}, SearchQueries, MaxTime)
    \/ GetCategories({2}, MaxTime)
    \/ GetStockLevels({2}, MaxTime)
    \/ GetLowStockItems({2}, ThresholdQueries, MaxTime)

SpecCatalog == Init /\ [][NextCatalog]_vars

(***************************************************************************)
(* An order taken while the stock is written on another connection.        *)
(***************************************************************************)
RaceOrders ==
    {OrderOf(<<[product_id |-> 1, quantity |-> 2]>>),
     OrderOf(<<[product_id |-> 2, quantity |-> 15], [product_id |-> 1, quantity |-> 1]>>),
     OrderOf(<<[product_id |-> 1, quantity |-> 2], [product_id |-> 2, quantity |-> 21]>>)}

\* bodies of PUT /inventory/<id>: the first takes the stock of the record
\* below zero, the second raises it
RaceWrites == {[lifting_pieces |-> 30], [opening_pieces |-> 30]}

NextRace ==
    \/ OrderFlush({2, 3}, RaceOrders, MaxTime)
    \/ OrderCheck
    \/ OrderCommit
    \/ InventoryWriteBeside({1}, {1, 2}, RaceWrites, MaxTime)

SpecRace == Init /\ [][NextRace]_vars

(***************************************************************************)
(* Orders moved among all the statuses, and values that are no status.     *)
(***************************************************************************)
OtherStatuses == {"shipped", "Delivered", ""}

TransitionBodies == {[status |-> s] : s \in ValidStatuses \cup OtherStatuses} \cup {NoData}

NextTransitions ==
    \/ UpdateOrderStatus({1, 2, 3}, {1, 2}, TransitionBodies, MaxTime)
    \/ CreateOrder({2}, {OneOrder}, MaxTime)

SpecTransitions == Init /\ [][NextTransitions]_vars

(***************************************************************************)
(* Sessions: users log in and work while an admin deactivates and          *)
(* reactivates accounts.                                                   *)
(***************************************************************************)
\* bodies of POST /login
LoginBodies ==
    {[username |-> "sales1", password |-> "sales123"],
     [username |-> "sales1@pentagon.com", password |-> "sales123"],
     [username |-> " sales1 ", password |-> "admin123"],
     [username |-> "manager", password |-> "manager123"],
     [username |-> "karim", password |-> "sales123"],
     [username |-> "sales1"]}

NextSessions ==
    \/ Login(LoginBodies, MaxTime)
    \/ DeleteUser({1, 2}, {2, 4}, MaxTime)
    \/ UpdateUser({1, 2}, {2}, {[is_active |-> TRUE], [is_active |-> FALSE]}, MaxTime)
    \/ UpdateProfile({2}, {[phone |-> "+880175555555"]}, MaxTime)
    \/ CreateOrder({2}, {OneOrder}, MaxTime)
    \/ GetOrders({2, 4}, {NoData}, MaxTime)

SpecSessions == Init /\ [][NextSessions]_vars

(***************************************************************************)
(* Order lines: orders with a quantity of zero or below and orders that    *)
(* name one product in two lines, while the stock is written.              *)
(***************************************************************************)
LineOrders ==
    {OrderOf(<<[product_id |-> 1, quantity |-> 0]>>),
     OrderOf(<<[product_id |-> 1, quantity |-> -3]>>),
     OrderOf(<<[product_id |-> 2, quantity |-> 1], [product_id |-> 1, quantity |-> -3]>>),
     OrderOf(<<[product_id |-> 1, quantity |-> 15], [product_id |-> 1, quantity |-> 15]>>),
     OrderOf(<<[product_id |-> 1, quantity |-> 15], [product_id |-> 2, quantity |-> 5]>>),
     OrderOf(<<[product_id |-> 1, quantity |-> 21]>>)}

NextOrderLines ==
    \/ CreateOrder({2, 3}, LineOrders, MaxTime)
    \/ UpdateInventoryRecord({1}, {1}, {[opening_pieces |-> 30], [lifting_pieces |-> 30]}, MaxTime)

SpecOrderLines == Init /\ [][NextOrderLines]_vars

(***************************************************************************)
(* Admins writing admin accounts, their own included.                      *)
(***************************************************************************)
\* bodies of PUT /users/<id>
StandingChanges == {[is_active |-> FALSE], [role |-> "sales"], [full_name |-> "Karim"]}

NextAdmins ==
    \/ DeleteUser({1, 4}, {1, 4}, MaxTime)
    \/ UpdateUser({1, 4}, {1, 4}, StandingChanges, MaxTime)
    \/ GetUsers({1, 4}, MaxTime)

SpecAdmins == Init /\ [][NextAdmins]_vars

(***************************************************************************)
(* Inventory writers: admins create and update inventory records on        *)
(* connections served side by side.                                        *)
(***************************************************************************)
\* bodies of PUT /inventory/<id>
WriterChanges ==
    {[lifting_pieces |-> 30], [opening_pieces |-> 30],
     [opening_pieces |-> 30, lifting_pieces |-> 7]}

\* bodies of POST /inventory
WriterRecords ==
    {[product_id |-> 1, date |-> Today + 1],
     [product_id |-> 1, date |-> Today + 1, opening_pieces |-> 30]}

NextWriters ==
    \/ InventoryLoad(Connections, {1, 4}, {1}, WriterChanges)
    \/ InventoryCommit(Connections, MaxTime)
    \/ InventoryCheck(Connections, {1}, WriterRecords)
    \/ InventoryInsert(Connections, MaxTime)

SpecWriters == Init /\ [][NextWriters]_vars

(***************************************************************************)
(* Stock reports: the two reports read while the stock moves around the    *)
(* low-stock limit.                                                        *)
(***************************************************************************)
\* bodies of PUT /inventory/<id>: they leave today's sample record with 10,
\* 9, 11 and -5 pieces
ReportChanges ==
    {[lifting_pieces |-> 15], [lifting_pieces |-> 16], [lifting_pieces |-> 14],
     [lifting_pieces |-> 30]}

NextReports ==
    \/ UpdateInventoryRecord({1}, {1, 2}, ReportChanges, MaxTime)
    \/ DeleteProduct({1}, {3}, MaxTime)
    \/ GetStockLevels({2}, MaxTime)
    \/ GetLowStockItems({2}, {NoData, [threshold |-> 25]}, MaxTime)

SpecReports == Init /\ [][NextReports]_vars

(***************************************************************************)
(* Every request of the model.                                             *)
(***************************************************************************)
Next == NextInventory \/ NextOrders \/ NextStatus \/ NextUsers \/ NextOrderBook \/ NextAccounts \/ NextCatalog \/ NextRace \/ NextTransitions \/ NextSessions \/ NextOrderLines \/ NextAdmins \/ NextWriters \/ NextReports

Spec == Init /\ [][Next]_vars

(***************************************************************************)
(* Properties.                                                             *)
(***************************************************************************)

\* C1: every stored inventory record has total_stock = opening_pieces +
\* return_market_pieces + return_office_pieces - lifting_pieces, present_stock
\* = total_stock and closing_value = present_stock * 140, after any sequence
\* of inventory create and update requests.
C1_InventoryTotals ==
    \A i \in Ids(inventory) :
        /\ inventory[i].total_stock =
               inventory[i].opening_pieces + inventory[i].return_market_pieces
               + inventory[i].return_office_pieces - inventory[i].lifting_pieces
        /\ inventory[i].present_stock = inventory[i].total_stock
        /\ inventory[i].closing_value = inventory[i].present_stock * 140

\* an update has just rewritten the lifting of a record, with a record created
\* by request in the table
C1_Witness ==
    /\ last.op = "update_inventory_record" /\ last.code = 200
    /\ Len(inventory) > Len(SampleInventory)
    /\ inventory[last.id].lifting_pieces = 30
    /\ inventory[last.id].total_stock < 0

RecordsOf(p) == {i \in Ids(inventory) : inventory[i].product_id = p}

LatestOf(p) == {i \in RecordsOf(p) : \A j \in RecordsOf(p) : inventory[j].date <= inventory[i].date}

\* C2: for every product, get_current_stock is the present_stock of the
\* product's record with the greatest date, whatever that date and whatever
\* the other records hold, and 0 when the product has no record; the stock a
\* GET /inventory/product/<id> answers is that value.
C2_CurrentStockIsLatest ==
    /\ \A p \in 1..(Len(products) + 1) :
        /\ RecordsOf(p) = {} => get_current_stock(inventory, p) = 0
        /\ \A i \in LatestOf(p) : get_current_stock(inventory, p) = inventory[i].present_stock
    /\ (last.op = "get_product_inventory" /\ last.code = 200) =>
        /\ RecordsOf(last.id) = {} => last.out = 0
        /\ \A i \in LatestOf(last.id) : last.out = inventory[i].present_stock

\* the stock of a product was read whose latest record is dated after today
\* and holds less than an older record, while another product has no record
C2_Witness ==
    /\ last.op = "get_product_inventory" /\ last.code = 200
    /\ \E i \in LatestOf(last.id) :
        /\ inventory[i].date > Today
        /\ last.out = inventory[i].present_stock
        /\ \E j \in RecordsOf(last.id) : inventory[j].present_stock > inventory[i].present_stock
    /\ \E p \in Ids(products) : RecordsOf(p) = {} /\ get_current_stock(inventory, p) = 0

OrderCallers == {2, 3}

ItemBodies == {data \in OrderBodies : Has(data, "items") /\ Has(data, "customer_name")}

\* the line names no product, an inactive product, or more than the stock
LineRefused(line) ==
    \/ line.product_id \notin Ids(products)
    \/ ~products[line.product_id].is_active
    \/ line.quantity > get_current_stock(inventory, line.product_id)

\* C3: a POST /orders with a line that names a missing or inactive product or
\* asks for more than get_current_stock of its product is rejected, and the
\* store after it holds the same orders and order items as before, whatever
\* valid lines precede the refused one.
C3_OrderAllOrNothing ==
    \A caller \in OrderCallers, data \in ItemBodies :
        (\E k \in 1..Len(data.items) : LineRefused(data.items[k])) =>
            LET r == create_order(Db, caller, data, now + 1)
            IN  /\ r.code # 201
                /\ r.db.orders = orders
                /\ r.db.order_items = order_items
                /\ r.db = Db

\* an order was just rejected in a state where a two-line request with a
\* valid first line and an inactive product in its second is rejected
C3_Witness ==
    /\ last.op = "create_order" /\ last.code = 400
    /\ \E data \in ItemBodies :
        /\ Len(data.items) = 2
        /\ ~LineRefused(data.items[1])
        /\ data.items[2].product_id \in Ids(products)
        /\ ~products[data.items[2].product_id].is_active
        /\ create_order(Db, last.caller, data, now + 1).code = 400

\* the items of order o in table ois, in insertion order
ItemsOf(ois, o) == SelectSeq(ois, LAMBDA it : it.order_id = o)

RECURSIVE SumTotalPrice(_)
SumTotalPrice(its) == IF its = <<>> THEN 0 ELSE Head(its).total_price + SumTotalPrice(Tail(its))

\* C4: an accepted POST /orders stores one item per request line, in order,
\* with unit_price the product's trade_price at that moment and total_price =
\* quantity * unit_price, and the order's total_value is the sum of its items'
\* total_price; every stored order and item satisfies the two equations.
C4_OrderTotals ==
    /\ \A caller \in OrderCallers, data \in ItemBodies :
        LET r == create_order(Db, caller, data, now + 1)
            oid == Len(orders) + 1
            n == Len(data.items)
        IN  r.code = 201 =>
                /\ Len(r.db.orders) = oid
                /\ Len(r.db.order_items) = Len(order_items) + n
                /\ \A k \in 1..n :
                    LET it == r.db.order_items[Len(order_items) + k]
                        line == data.items[k]
                    IN  /\ it.order_id = oid
                        /\ it.product_id = line.product_id
                        /\ it.quantity = line.quantity
                        /\ it.unit_price = products[line.product_id].trade_price
                        /\ it.total_price = line.quantity * products[line.product_id].trade_price
                /\ r.db.orders[oid].total_value = SumTotalPrice(ItemsOf(r.db.order_items, oid))
    /\ \A o \in Ids(orders) : orders[o].total_value = SumTotalPrice(ItemsOf(order_items, o))
    /\ \A k \in Ids(order_items) :
        order_items[k].total_price = order_items[k].quantity * order_items[k].unit_price

\* the order just accepted has the lines (product 1, 2) and (product 2, 1) at
\* prices 140 and 100 and a total of 380
C4_Witness ==
    /\ last.op = "create_order" /\ last.code = 201
    /\ orders[last.out].total_value = 380
    /\ LET its == ItemsOf(order_items, last.out)
       IN  /\ Len(its) = 2
           /\ its[1].product_id = 1 /\ its[1].quantity = 2
           /\ its[1].unit_price = 140 /\ its[1].total_price = 280
           /\ its[2].product_id = 2 /\ its[2].quantity = 1
           /\ its[2].unit_price = 100 /\ its[2].total_price = 100

\* C5: a POST /orders, accepted or rejected, leaves every inventory record
\* and so every get_current_stock as it was, and an accepted request sent
\* again right away is accepted again.
C5_OrderLeavesStock ==
    \A caller \in OrderCallers, data \in OrderBodies :
        LET r == create_order(Db, caller, data, now + 1)
        IN  /\ r.db.inventory = inventory
            /\ \A p \in Ids(products) :
                   get_current_stock(r.db.inventory, p) = get_current_stock(inventory, p)
            /\ r.code = 201 => create_order(r.db, caller, data, now + 2).code = 201

\* the lines of stored order o, as a request would list them
LinesOf(o) ==
    LET its == ItemsOf(order_items, o)
    IN  [k \in 1..Len(its) |-> [product_id |-> its[k].product_id, quantity |-> its[k].quantity]]

\* the same lines were accepted twice from the same caller, the second time
\* just now, with the inventory as it was at startup
C5_Witness ==
    /\ last.op = "create_order" /\ last.code = 201
    /\ inventory = SampleInventory
    /\ \E o \in Ids(orders) :
        /\ o > Len(SampleOrders) /\ o < last.out
        /\ orders[o].sales_person_id = orders[last.out].sales_person_id
        /\ LinesOf(o) = LinesOf(last.out)

\* C6 as claimed: once an order's delivery_date is set, no request changes it.
C6_StampedOnce ==
    [][\A o \in Ids(orders) :
          orders[o].delivery_date # Null => orders'[o].delivery_date = orders[o].delivery_date]_vars

\* C6 amended: a delivery_date that is set is never cleared and never moves
\* back, it keeps its value for as long as the order stays delivered, and it
\* takes a new value only in a step that brings the order into delivered from
\* another status, the value being the time of that step.
C6_StampedOnEntry ==
    [][\A o \in Ids(orders) :
          /\ orders[o].delivery_date # Null =>
                /\ orders'[o].delivery_date # Null
                /\ orders'[o].delivery_date >= orders[o].delivery_date
          /\ orders[o].status = "delivered" => orders'[o].delivery_date = orders[o].delivery_date
          /\ orders'[o].delivery_date # orders[o].delivery_date =>
                /\ orders'[o].status = "delivered"
                /\ orders'[o].delivery_date = now']_vars

\* a delivered order was just set to delivered again and still carries the
\* earlier stamp
C6_Witness ==
    /\ last.op = "update_order_status" /\ last.code = 200
    /\ orders[last.id].status = "delivered"
    /\ orders[last.id].delivery_date # Null
    /\ orders[last.id].delivery_date < orders[last.id].updated_at

\* C7: a successful status update changes the order's delivery_date exactly
\* when the new status is delivered and the old one is not; entering
\* delivered leaves it non-null, and no other order's delivery_date changes.
C7_StampIffEntering ==
    [][(last'.op = "update_order_status" /\ last'.code = 200) =>
          /\ \A o \in Ids(orders) :
                (orders'[o].delivery_date # orders[o].delivery_date) <=>
                    /\ o = last'.id
                    /\ orders'[o].status = "delivered"
                    /\ orders[o].status # "delivered"
          /\ (orders'[last'.id].status = "delivered" /\ orders[last'.id].status # "delivered") =>
                orders'[last'.id].delivery_date # Null]_vars

\* a pending order was just delivered and stamped with the time of the step
C7_Witness ==
    /\ last.op = "update_order_status" /\ last.code = 200
    /\ orders[last.id].status = "delivered"
    /\ orders[last.id].delivery_date = now
    /\ orders[last.id].updated_at = now

OwnOrders(caller) == {o \in Ids(orders) : orders[o].sales_person_id = caller}

StatusChanges == {b \in StatusBodies : Has(b, "status") /\ b.status \in ValidStatuses}

\* C8: an authenticated sales user gets only own orders from GET /orders, is
\* answered 403 by GET /orders/<id> and PUT /orders/<id>/status on another
\* user's order, which stays as it is, and succeeds with both on an own
\* order; an admin succeeds on every order and lists all of them.
C8_SalesSeeOwnOrders ==
    /\ \A caller \in Ids(users) :
        (token_required(users, caller) /\ is_sales(users[caller])) =>
            /\ \A f \in OrderFilters : get_orders(Db, caller, f).out \subseteq OwnOrders(caller)
            /\ \A o \in Ids(orders) \ OwnOrders(caller) :
                /\ get_order(Db, caller, o).code = 403
                /\ \A b \in StatusBodies :
                    /\ update_order_status(Db, caller, o, b, now + 1).code = 403
                    /\ update_order_status(Db, caller, o, b, now + 1).db = Db
            /\ \A o \in OwnOrders(caller) :
                /\ get_order(Db, caller, o).code = 200
                /\ get_order(Db, caller, o).out = {o}
                /\ \A b \in StatusChanges :
                    /\ update_order_status(Db, caller, o, b, now + 1).code = 200
                    /\ update_order_status(Db, caller, o, b, now + 1).db.orders[o].status = b.status
    /\ \A caller \in Ids(users) :
        (token_required(users, caller) /\ is_admin(users[caller])) =>
            /\ get_orders(Db, caller, NoData).out = Ids(orders)
            /\ \A o \in Ids(orders) :
                /\ get_order(Db, caller, o).code = 200
                /\ \A b \in StatusChanges : update_order_status(Db, caller, o, b, now + 1).code = 200
    /\ (last.op \in {"get_order", "update_order_status"} /\ last.code = 403) =>
        /\ is_sales(users[last.caller])
        /\ orders[last.id].sales_person_id # last.caller
    /\ (last.op = "get_orders" /\ last.code = 200 /\ is_sales(users[last.caller])) =>
        last.out \subseteq OwnOrders(last.caller)

\* sales user 2 was just refused a status update of an order of sales user 3
C8_Witness ==
    /\ last.op = "update_order_status" /\ last.code = 403
    /\ last.caller = 2
    /\ orders[last.id].sales_person_id = 3
    /\ OwnOrders(2) # {}

ProductBodies == {[item_name |-> "Kodomo Soap", trade_price |-> 100], [trade_price |-> 100],
                  [is_active |-> FALSE]}

\* C9: for an authenticated sales user, product create, update and delete and
\* inventory create and update answer 403 and leave the store as it is, and
\* the order requests leave the products and the inventory as they are.
C9_SalesCannotWriteCatalog ==
    /\ \A caller \in Ids(users) :
        (token_required(users, caller) /\ is_sales(users[caller])) =>
            /\ \A data \in ProductBodies :
                /\ create_product(Db, caller, data).code = 403
                /\ create_product(Db, caller, data).db = Db
                /\ \A p \in 1..(Len(products) + 1) :
                    /\ update_product(Db, caller, p, data).code = 403
                    /\ update_product(Db, caller, p, data).db = Db
            /\ \A p \in 1..(Len(products) + 1) :
                /\ delete_product(Db, caller, p).code = 403
                /\ delete_product(Db, caller, p).db = Db
            /\ \A data \in InventoryBodies :
                /\ create_inventory_record(Db, caller, data).code = 403
                /\ create_inventory_record(Db, caller, data).db = Db
            /\ \A i \in 1..(Len(inventory) + 1), data \in MoveBodies :
                /\ update_inventory_record(Db, caller, i, data).code = 403
                /\ update_inventory_record(Db, caller, i, data).db = Db
            /\ \A data \in OrderBodies :
                /\ create_order(Db, caller, data, now + 1).db.products = products
                /\ create_order(Db, caller, data, now + 1).db.inventory = inventory
            /\ \A o \in Ids(orders), b \in StatusBodies :
                /\ update_order_status(Db, caller, o, b, now + 1).db.products = products
                /\ update_order_status(Db, caller, o, b, now + 1).db.inventory = inventory
    /\ ( /\ last.op \in {"create_product", "update_product", "delete_product",
                         "create_inventory_record", "update_inventory_record"}
         /\ last.caller \in Ids(users)
         /\ is_sales(users[last.caller]) ) => last.code = 403

\* sales user 2 was just refused an update of an inventory record, after an
\* admin has written to the inventory
C9_Witness ==
    /\ last.op = "update_inventory_record" /\ last.code = 403
    /\ last.caller = 2 /\ is_sales(users[2])
    /\ last.id \in Ids(inventory)
    /\ inventory # SampleInventory

\* C10: a sales user is given no user record but the own one: GET /users and
\* GET /users/stats answer 403, GET /users/<id> answers 403 for another id,
\* and the records GET /users/sales returns are the caller's only.
C10_SalesSeeNoOtherUser ==
    ( /\ last.op \in {"get_users", "get_user", "get_sales_users", "get_user_stats"}
      /\ last.caller \in Ids(users)
      /\ is_sales(users[last.caller])
      /\ users[last.caller].is_active ) =>
        /\ last.op \in {"get_users", "get_user_stats"} => last.code = 403
        /\ (last.op = "get_user" /\ last.id \in Ids(users) /\ last.id # last.caller) => last.code = 403
        /\ last.code = 200 => last.out \subseteq {last.caller}

\* bodies of PUT /inventory/<id> that name another product or another date
KeyBodies ==
    {[product_id |-> 2, lifting_pieces |-> 30], [date |-> Today - 1, opening_pieces |-> 30],
     [product_id |-> 2, date |-> Today + 1]}

\* C11: there is at most one inventory record per (product_id, date); a
\* create for a (product_id, date) that has a record answers 400 and adds no
\* row, and an update adds no row and leaves every record's product_id and
\* date as they are.
C11_OneRecordPerDay ==
    /\ \A i, j \in Ids(inventory) :
        (inventory[i].product_id = inventory[j].product_id /\ inventory[i].date = inventory[j].date)
            => i = j
    /\ \A caller \in {1, 4}, data \in InventoryBodies :
        ( /\ Has(data, "product_id")
          /\ \E i \in Ids(inventory) :
                /\ inventory[i].product_id = data.product_id
                /\ inventory[i].date = Get(data, "date", Today) ) =>
            /\ create_inventory_record(Db, caller, data).code = 400
            /\ create_inventory_record(Db, caller, data).db = Db
    /\ \A caller \in {1, 4}, i \in Ids(inventory), data \in MoveBodies \cup KeyBodies :
        LET r == update_inventory_record(Db, caller, i, data)
        IN  /\ Len(r.db.inventory) = Len(inventory)
            /\ \A k \in Ids(inventory) :
                /\ r.db.inventory[k].product_id = inventory[k].product_id
                /\ r.db.inventory[k].date = inventory[k].date

\* a record was created for product 1 and tomorrow, and a second create for
\* the same product and day was just answered 400
C11_Witness ==
    /\ Len(inventory) = Len(SampleInventory) + 1
    /\ inventory[Len(inventory)].product_id = 1
    /\ inventory[Len(inventory)].date = Today + 1
    /\ last.op = "create_inventory_record" /\ last.code = 400 /\ last.caller = 1
    /\ create_inventory_record(Db, 1, [product_id |-> 1, date |-> Today + 1]).code = 400

\* the fields of an order that no request may change after creation
OrderFrame(order) ==
    [sales_person_id |-> order.sales_person_id, customer_name |-> order.customer_name,
     delivery_area |-> order.delivery_area, total_value |-> order.total_value,
     order_date |-> order.order_date]

\* C12: no step changes an existing order's items (none added, none removed,
\* none changed), its total_value, its customer fields or its
\* sales_person_id: only status, delivery_date and updated_at move, and in
\* the state after the step every order's total_value is the sum of its
\* items' total_price.
C12_OrdersFrozen ==
    [][ /\ Len(orders') >= Len(orders)
        /\ \A o \in Ids(orders) : OrderFrame(orders'[o]) = OrderFrame(orders[o])
        /\ Len(order_items') >= Len(order_items)
        /\ \A k \in Ids(order_items) : order_items'[k] = order_items[k]
        /\ \A k \in Ids(order_items') \ Ids(order_items) : order_items'[k].order_id \notin Ids(orders)
        /\ \A o \in Ids(orders') :
              orders'[o].total_value = SumTotalPrice(ItemsOf(order_items', o)) ]_vars

\* order 4 was taken at 140 a piece, the price of its product was then set
\* to 100, and the order was just delivered
C12_Witness ==
    /\ Len(orders) = 4
    /\ products[1].trade_price = 100
    /\ ItemsOf(order_items, 4)[1].product_id = 1
    /\ ItemsOf(order_items, 4)[1].unit_price = 140
    /\ last.op = "update_order_status" /\ last.code = 200 /\ last.id = 4
    /\ orders[4].status = "delivered"

\* C13: no step removes a product or a user (their ids only grow), and an
\* accepted DELETE /products/<id> or DELETE /users/<id> leaves the store as
\* it was except that the target's is_active is false.
C13_SoftDelete ==
    [][ /\ Len(products') >= Len(products)
        /\ Len(users') >= Len(users)
        /\ (last'.op = "delete_product" /\ last'.code = 200) =>
              /\ products' = [products EXCEPT ![last'.id].is_active = FALSE]
              /\ <<users, inventory, orders, order_items>>' = <<users, inventory, orders, order_items>>
        /\ (last'.op = "delete_user" /\ last'.code = 200) =>
              /\ users' = [users EXCEPT ![last'.id].is_active = FALSE]
              /\ <<products, inventory, orders, order_items>>' = <<products, inventory, orders, order_items>>
      ]_vars

\* user 3 was deleted and product 3 was deleted just now: both rows are
\* still there, inactive
C13_Witness ==
    /\ last.op = "delete_product" /\ last.code = 200 /\ last.id = 3
    /\ Len(products) = Len(SampleProducts) /\ ~products[3].is_active
    /\ Len(users) = Len(SampleUsers) /\ ~users[3].is_active
    /\ users[3].username = "sales2"

ActiveProducts == {p \in Ids(products) : products[p].is_active}

\* order bodies with a line for product p, alone, first and last
OrdersWith(p) ==
    {OrderOf(<<[product_id |-> p, quantity |-> 1]>>),
     OrderOf(<<[product_id |-> p, quantity |-> 1], [product_id |-> 1, quantity |-> 1]>>),
     OrderOf(<<[product_id |-> 1, quantity |-> 1], [product_id |-> p, quantity |-> 1]>>)}

\* C14: GET /products, search, stock-levels and low-stock return active
\* products only (GET /products and stock-levels all of them), categories
\* returns the categories of active products only, and every order request
\* with a line for an inactive product answers 400 and stores nothing, while
\* a line for an active product with stock is accepted.
C14_InactiveExcluded ==
    \A caller \in {2, 3} :
        /\ get_all_products(Db, caller).out = ActiveProducts
        /\ \A args \in SearchQueries : search_products(Db, caller, args).out \subseteq ActiveProducts
        /\ search_products(Db, caller, NoData).out = ActiveProducts
        /\ get_categories(Db, caller).out \subseteq {products[p].category : p \in ActiveProducts}
        /\ {e.product_id : e \in get_stock_levels(Db, caller).out} = ActiveProducts
        /\ \A args \in ThresholdQueries :
              {e.product_id : e \in get_low_stock_items(Db, caller, args).out} \subseteq ActiveProducts
        /\ \A p \in Ids(products) \ ActiveProducts :
              \A data \in OrdersWith(p) :
                  /\ create_order(Db, caller, data, now + 1).code = 400
                  /\ create_order(Db, caller, data, now + 1).db = Db
        /\ \A p \in ActiveProducts :
              get_current_stock(inventory, p) >= 1 =>
                  create_order(Db, caller, OrderOf(<<[product_id |-> p, quantity |-> 1]>>), now + 1).code = 201

\* product 3 was deactivated and an order with a line for it was just
\* refused; the listing of products leaves it out
C14_Witness ==
    /\ last.op = "create_order" /\ last.code = 400 /\ last.caller = 2
    /\ ~products[3].is_active
    /\ get_current_stock(inventory, 3) >= 1
    /\ 3 \notin get_all_products(Db, 2).out

\* C15: every product's trade_price, return_price_market and
\* return_price_office are non-negative.
C15_PricesNonNegative ==
    \A p \in Ids(products) :
        /\ products[p].trade_price >= 0
        /\ products[p].return_price_market >= 0
        /\ products[p].return_price_office >= 0

\* C16: no two products, active or not, have the same item_name, so no two
\* active ones do; a create with the name of any product, and a rename
\* (with or without re-activation) to the name of another product, answer
\* 400 and leave the store as it is.
C16_UniqueProductNames ==
    /\ \A p, q \in Ids(products) : products[p].item_name = products[q].item_name => p = q
    /\ \A caller \in {1, 4}, q \in Ids(products) :
        /\ \A data \in {[item_name |-> products[q].item_name, trade_price |-> 100],
                       [item_name |-> products[q].item_name, trade_price |-> 100,
                        category |-> "Soap"]} :
              /\ create_product(Db, caller, data).code = 400
              /\ create_product(Db, caller, data).db = Db
        /\ \A p \in Ids(products) \ {q} :
              \A data \in {[item_name |-> products[q].item_name],
                           [item_name |-> products[q].item_name, is_active |-> TRUE],
                           [item_name |-> products[q].item_name, trade_price |-> 100]} :
                  /\ update_product(Db, caller, p, data).code = 400
                  /\ update_product(Db, caller, p, data).db = Db

\* product 3 was deleted, and a create with its name was just refused
C16_Witness ==
    /\ last.op = "create_product" /\ last.code = 400 /\ last.caller = 1
    /\ Len(products) = Len(SampleProducts)
    /\ ~products[3].is_active
    /\ products[3].item_name = SampleProducts[3].item_name

\* account bodies that take the username or the email of user u
TakenBodies(u) ==
    {[username |-> users[u].username] @@ Rahim,
     [email |-> users[u].email] @@ Rahim,
     [username |-> users[u].username, email |-> "karim@pentagon.com", role |-> "admin"] @@ Rahim,
     [username |-> "karim", email |-> users[u].email, phone |-> "+880175555555"] @@ Rahim}

\* C17: no two users have the same username and no two the same email; a
\* register or create-user request with a username or email in use, blanks
\* around it or not, and a user or profile update to an email another user
\* has, answer 400 and leave the store as it is.
C17_UniqueAccounts ==
    /\ \A u, v \in Ids(users) :
        (users[u].username = users[v].username \/ users[u].email = users[v].email) => u = v
    /\ \A u \in Ids(users) : \A data \in TakenBodies(u) :
        /\ register(Db, data).code = 400
        /\ register(Db, data).db = Db
        /\ \A caller \in {a \in Ids(users) : users[a].is_active /\ is_admin(users[a])} :
              /\ create_user(Db, caller, data).code = 400
              /\ create_user(Db, caller, data).db = Db
    /\ \A data \in {[username |-> " sales1 "] @@ Rahim, [email |-> " sales2@pentagon.com"] @@ Rahim} :
        /\ register(Db, data).code = 400
        /\ register(Db, data).db = Db
    /\ \A u \in Ids(users) : \A v \in Ids(users) \ {u} :
        \A data \in {[email |-> users[u].email], [full_name |-> "Karim", email |-> users[u].email]} :
            /\ \A caller \in {a \in Ids(users) : users[a].is_active /\ (is_admin(users[a]) \/ a = v)} :
                  /\ update_user(Db, caller, v, data).code = 400
                  /\ update_user(Db, caller, v, data).db = Db
            /\ users[v].is_active =>
                  /\ update_profile(Db, v, data).code = 400
                  /\ update_profile(Db, v, data).db = Db

\* rahim has registered, and a second registration with the same username
\* or email was just refused
C17_Witness ==
    /\ Len(users) = Len(SampleUsers) + 1
    /\ users[Len(users)].username = "rahim"
    /\ last.op = "register" /\ last.code = 400
    /\ register(Db, Rahim).code = 400

\* what a request may not touch unless an admin sends it
Standing(us) == [u \in Ids(us) |-> [role |-> us[u].role, is_active |-> us[u].is_active]]

\* account bodies that ask for a role or a standing
RoleBodies ==
    {Rahim, [role |-> "admin"] @@ Rahim, [role |-> "Admin"] @@ Rahim,
     [role |-> "admin", is_active |-> FALSE] @@ Rahim}

\* bodies of PUT /users/<id> and PUT /profile that ask for a role or a standing
StandingBodies ==
    ProfileBodies \cup {[role |-> "admin"], [role |-> "Admin", full_name |-> "Karim"],
                        [is_active |-> FALSE], [is_active |-> TRUE, phone |-> "+880175555555"]}

\* C18: POST /register creates a sales account, active, whatever role the
\* body asks for; no request without a token or from a sales user changes
\* the role or is_active of any user or adds an admin: their user and
\* profile updates leave both as they are, and their create-user and
\* delete-user requests are refused; an admin's user update does change them.
C18_OnlyAdminsGrantRoles ==
    /\ \A data \in RoleBodies :
        LET r == register(Db, data)
        IN  /\ r.code \in {201, 400}
            /\ Standing(SubSeq(r.db.users, 1, Len(users))) = Standing(users)
            /\ r.code = 201 =>
                  /\ Len(r.db.users) = Len(users) + 1
                  /\ r.db.users[Len(users) + 1].role = "sales"
                  /\ r.db.users[Len(users) + 1].is_active
            /\ r.code = 400 => r.db = Db
    /\ \A caller \in {0} \cup {c \in Ids(users) : is_sales(users[c])} :
        /\ \A data \in RoleBodies :
              /\ create_user(Db, caller, data).code \in {401, 403}
              /\ create_user(Db, caller, data).db = Db
        /\ \A u \in Ids(users) :
              /\ delete_user(Db, caller, u).code \in {401, 403}
              /\ delete_user(Db, caller, u).db = Db
              /\ \A data \in StandingBodies :
                    Standing(update_user(Db, caller, u, data).db.users) = Standing(users)
        /\ \A data \in StandingBodies :
              Standing(update_profile(Db, caller, data).db.users) = Standing(users)
    /\ \A caller \in {c \in Ids(users) : users[c].is_active /\ is_admin(users[c])}, u \in Ids(users) :
        LET r == update_user(Db, caller, u, [role |-> "Admin", is_active |-> FALSE])
        IN  /\ r.code = 200
            /\ r.db.users[u].role = "admin"
            /\ ~r.db.users[u].is_active
    /\ ( /\ last.op \in {"register", "update_user", "update_profile"}
         /\ last.code \in {200, 201}
         /\ last.caller \notin {c \in Ids(users) : is_admin(users[c])} ) =>
            /\ last.id # 0 => users[last.id].role = "sales"
            /\ last.op = "register" => users[last.out].role = "sales" /\ users[last.out].is_active

\* rahim has registered and is a sales user, and sales user 2 just sent a
\* user update asking for the admin role, which was answered 200 and left
\* the role and the standing as they were
C18_Witness ==
    /\ Len(users) = Len(SampleUsers) + 1
    /\ users[Len(users)].role = "sales" /\ users[Len(users)].is_active
    /\ last.op = "update_user" /\ last.code = 200 /\ last.caller = 2 /\ last.id = 2
    /\ users[2] = SampleUsers[2]

WriteRequests ==
    {"register", "create_user", "update_user", "update_profile", "delete_user",
     "create_product", "update_product", "delete_product",
     "create_inventory_record", "update_inventory_record", "create_order", "update_order_status"}

MayUpdate(o) ==
    {c \in Ids(users) : token_required(users, c) /\ ~order_forbidden(users, c, orders[o])}

\* C21: for an authorized caller, from every current status a status update
\* to each of the five statuses succeeds and sets it, a status update to any
\* other value is answered 400 and leaves the store (status, delivery_date,
\* updated_at) as it is, and every order's status is one of the five values.
C21_AnyStatusFromAny ==
    \A o \in Ids(orders) :
        /\ orders[o].status \in ValidStatuses
        /\ \A caller \in MayUpdate(o) :
            /\ \A s \in ValidStatuses :
                LET r == update_order_status(Db, caller, o, [status |-> s], now + 1)
                IN  /\ r.code = 200
                    /\ r.db.orders[o].status = s
            /\ \A s \in OtherStatuses :
                LET r == update_order_status(Db, caller, o, [status |-> s], now + 1)
                IN  /\ r.code = 400
                    /\ r.db = Db /\ r.pending = Db

\* an order that had been delivered was just moved on to due by its sales
\* user, and can be moved to each of the five statuses again
C21_Witness ==
    /\ last.op = "update_order_status" /\ last.code = 200
    /\ is_sales(users[last.caller])
    /\ orders[last.id].status = "due"
    /\ orders[last.id].delivery_date # Null
    /\ orders[last.id].updated_at > orders[last.id].delivery_date
    /\ \A s \in ValidStatuses :
          update_order_status(Db, last.caller, last.id, [status |-> s], now + 1).code = 200

\* movement bodies that lift more than the record then holds
ShortBodies ==
    {[lifting_pieces |-> 30], [opening_pieces |-> 0, lifting_pieces |-> 1],
     [lifting_pieces |-> 100, return_market_pieces |-> 5, return_office_pieces |-> 5]}

Incoming(r) == r.opening_pieces + r.return_market_pieces + r.return_office_pieces

\* record i of table inv holds the negative total its movement fields give,
\* and it is what get_current_stock returns when i is the product's latest
StoredShort(inv, i) ==
    /\ inv[i].total_stock = Incoming(inv[i]) - inv[i].lifting_pieces
    /\ inv[i].total_stock < 0
    /\ inv[i].present_stock = inv[i].total_stock
    /\ LatestInventory(inv, inv[i].product_id, 1, 0) = i =>
          get_current_stock(inv, inv[i].product_id) = inv[i].total_stock

\* C22: an admin's inventory create or update whose movement values have
\* lifting_pieces > opening_pieces + return_market_pieces +
\* return_office_pieces succeeds, the record stores the negative total_stock
\* and present_stock, and get_current_stock returns that value.
C22_NegativeStockStored ==
    \A caller \in {c \in Ids(users) : token_required(users, c) /\ is_admin(users[c])} :
        \A data \in ShortBodies :
            /\ \A i \in Ids(inventory) :
                LET r == update_inventory_record(Db, caller, i, data)
                    moved == AssignMoveFields(inventory[i], data, 1).rec
                IN  moved.lifting_pieces > Incoming(moved) =>
                        /\ r.code = 200
                        /\ StoredShort(r.db.inventory, i)
            /\ \A p \in Ids(products), d \in {Today, Today + 1} :
                LET r == create_inventory_record(Db, caller, [product_id |-> p, date |-> d] @@ data)
                IN  ~ExistingRecord(inventory, p, d) =>
                        /\ r.code = 201
                        /\ r.out = Len(inventory) + 1
                        /\ StoredShort(r.db.inventory, r.out)

\* a record was just written with more lifted than it held, and the current
\* stock of its product is now negative
C22_Witness ==
    /\ last.op \in {"create_inventory_record", "update_inventory_record"}
    /\ last.code \in {200, 201}
    /\ inventory[last.out].lifting_pieces > Incoming(inventory[last.out])
    /\ inventory[last.out].present_stock < 0
    /\ get_current_stock(inventory, inventory[last.out].product_id) = inventory[last.out].present_stock

\* the request was answered 401 and wrote nothing
Refused(r) == r.code = 401 /\ r.db = Db /\ r.pending = Db

\* the token-protected requests of the model, sent by user u
AllRefused(u) ==
    /\ Refused(get_orders(Db, u, NoData))
    /\ Refused(create_order(Db, u, OneOrder, now + 1))
    /\ \A o \in Ids(orders) :
          /\ Refused(get_order(Db, u, o))
          /\ Refused(update_order_status(Db, u, o, [status |-> "delivered"], now + 1))
    /\ Refused(get_all_products(Db, u))
    /\ Refused(search_products(Db, u, NoData))
    /\ Refused(get_categories(Db, u))
    /\ Refused(create_product(Db, u, [item_name |-> SoapName, trade_price |-> 100]))
    /\ \A p \in Ids(products) :
          /\ Refused(update_product(Db, u, p, [trade_price |-> 100]))
          /\ Refused(delete_product(Db, u, p))
          /\ Refused(get_product_inventory(Db, u, p))
    /\ Refused(create_inventory_record(Db, u, [product_id |-> 1, date |-> Today + 1]))
    /\ \A i \in Ids(inventory) : Refused(update_inventory_record(Db, u, i, [opening_pieces |-> 30]))
    /\ Refused(get_stock_levels(Db, u))
    /\ Refused(get_low_stock_items(Db, u, NoData))
    /\ Refused(get_users(Db, u))
    /\ Refused(get_sales_users(Db, u))
    /\ Refused(get_user_stats(Db, u))
    /\ Refused(create_user(Db, u, Rahim))
    /\ Refused(update_profile(Db, u, [phone |-> "+880175555555"]))
    /\ \A v \in Ids(users) :
          /\ Refused(get_user(Db, u, v))
          /\ Refused(delete_user(Db, u, v))
          /\ Refused(update_user(Db, u, v, [is_active |-> TRUE]))

\* the user's name or email with the user's password or another one
Credentials(u) ==
    {[username |-> n, password |-> pw] :
        n \in {users[u].username, users[u].email},
        pw \in {"admin123", "sales123", "manager123", "secret1", "wrong"}}

\* C23: while a user's is_active is false, every token-protected request by
\* that user and every login with that user's name or email and a password
\* is answered 401 and writes nothing; the account becomes active again only
\* by a successful PUT /users/<id> of an active admin.
C23_InactiveLockedOut ==
    /\ [](\A u \in Ids(users) :
             ~users[u].is_active =>
                 /\ AllRefused(u)
                 /\ \A data \in Credentials(u) : Refused(login(Db, data, now + 1)))
    /\ [][ /\ (last'.op # "login" /\ last'.caller \in Ids(users)
                  /\ ~users[last'.caller].is_active) =>
                 /\ last'.code = 401
                 /\ <<users, products, inventory, orders, order_items>>'
                        = <<users, products, inventory, orders, order_items>>
           /\ (last'.op = "login" /\ last'.code = 200) => users[last'.out].is_active
           /\ \A u \in Ids(users) :
                 (~users[u].is_active /\ users'[u].is_active) =>
                     /\ last'.op = "update_user" /\ last'.code = 200 /\ last'.id = u
                     /\ is_admin(users[last'.caller])
                     /\ users[last'.caller].is_active ]_vars

\* sales1 is deactivated, has just been refused with 401, and a login with
\* the right password is refused as well
C23_Witness ==
    /\ ~users[2].is_active
    /\ last.caller = 2 /\ last.code = 401
    /\ last.op \in {"create_order", "update_profile", "get_orders"}
    /\ check_password(users[2], "sales123")
    /\ login(Db, [username |-> "sales1", password |-> "sales123"], now + 1).code = 401

\* C24: every order whose status is delivered has a non-null delivery_date,
\* from the startup sample data on.
C24_DeliveredHasDate ==
    \A o \in Ids(orders) : orders[o].status = "delivered" => orders[o].delivery_date # Null

\* C25: every stored order item has quantity >= 1 and every stored order has
\* total_value >= 0.
C25_QuantityAtLeastOne ==
    /\ \A k \in Ids(order_items) : order_items[k].quantity >= 1
    /\ \A o \in Ids(orders) : orders[o].total_value >= 0

RECURSIVE SumQuantity(_, _)
SumQuantity(its, p) ==
    IF its = <<>> THEN 0
    ELSE (IF Head(its).product_id = p THEN Head(its).quantity ELSE 0) + SumQuantity(Tail(its), p)

\* C26: when an order has just been accepted, for every product the sum of
\* the quantities of the order's lines for it is at most the product's
\* current stock (orders leave the stock as it is, so the stock after the
\* step is the stock at acceptance).
C26_LinesWithinStock ==
    (last.op = "create_order" /\ last.code = 201) =>
        \A p \in Ids(products) :
            SumQuantity(ItemsOf(order_items, last.out), p) <= get_current_stock(inventory, p)

\* C27: no request of an active admin leaves that admin's own account
\* inactive or without the admin role, and in every state at least one
\* active admin exists.
C27_AdminKeepsOwnStanding ==
    /\ [](\E u \in Ids(users) : users[u].is_active /\ is_admin(users[u]))
    /\ [][(/\ last'.caller \in Ids(users)
           /\ users[last'.caller].is_active
           /\ is_admin(users[last'.caller])) =>
              /\ users'[last'.caller].is_active
              /\ is_admin(users'[last'.caller])]_vars

\* C28: after two update requests on the same inventory record have both
\* committed, however their reads and commits interleave, the stored record
\* has total_stock = opening_pieces + return_market_pieces +
\* return_office_pieces - lifting_pieces and present_stock = total_stock.
C28_TotalsAfterBothCommits ==
    (last.op = "update_inventory_record" /\ last.code = 200) =>
        /\ inventory[last.id].total_stock = Incoming(inventory[last.id]) - inventory[last.id].lifting_pieces
        /\ inventory[last.id].present_stock = inventory[last.id].total_stock

\* C29: however two create requests for the same (product_id, date)
\* interleave, the store never holds two records for one product and date.
C29_OneRowAfterBothCreates ==
    \A i, j \in Ids(inventory) :
        (inventory[i].product_id = inventory[j].product_id /\ inventory[i].date = inventory[j].date)
            => i = j

\* C30: for every active product, GET /inventory/low-stock with the default
\* threshold lists it exactly when GET /inventory/stock-levels reports its
\* stock_status as low, and both report get_current_stock as current_stock.
C30_ReportsAgree ==
    \A caller \in {c \in Ids(users) : token_required(users, c)} :
        LET levels == get_stock_levels(Db, caller).out
            low == get_low_stock_items(Db, caller, NoData).out
        IN  \A p \in ActiveProducts :
                /\ (\E e \in low : e.product_id = p) <=>
                       (\E e \in levels : e.product_id = p /\ e.stock_status = "low")
                /\ \A e \in low \cup {[product_id |-> f.product_id, current_stock |-> f.current_stock,
                                       urgency |-> "low"] : f \in levels} :
                       e.product_id = p => e.current_stock = get_current_stock(inventory, p)

====
